---- MODULE Spec2Model ----
(***************************************************************************)
(* A model of the CozyLife local-pull connection engine and device         *)
(* registry: TcpClient (tcp_client.py) with its receive loop, and          *)
(* DeviceCoordinator (coordinator.py).                                     *)
(*                                                                         *)
(* Spec      : one TcpClient shared by its receive-loop task and by        *)
(*             caller tasks; one step per stretch of code between two      *)
(*             suspension points (await of I/O, lock, sleep).              *)
(* SpecParse : the correlation of responses in a send-and-wait             *)
(*             (_parse_json_lines and the read loop that uses it).         *)
(* SpecCoord : the DeviceCoordinator registry and its re-discovery tasks.  *)
(***************************************************************************)
EXTENDS Integers, Sequences, FiniteSets, TLC

\* ------------------------------------------------------------------------
\* Program constants.  Durations of the retry backoff are in units of
\* 1/32 s, those of the loop's reconnect backoff in units of 1/2048 s, so
\* that every power of 1.5 the code can compute is an integer.
\* ------------------------------------------------------------------------
MAX_RETRY_ATTEMPTS == 5
INITIAL_RETRY_DELAY == 16
MAX_RETRY_DELAY == 480
RETRY_BACKOFF_NUM == 3
RETRY_BACKOFF_DEN == 2
MAX_CONSECUTIVE_FAILURES == 3
max_quick_retries == 3
RECONNECT_MIN_INTERVAL == 10240
RECONNECT_MAX_INTERVAL == 614400
RECONNECT_BACKOFF_NUM == 3
RECONNECT_BACKOFF_DEN == 2

\* ------------------------------------------------------------------------
\* Bounds of the model.
\* ------------------------------------------------------------------------
\* caps of the consecutive-failure counter (unbounded in the code) and of
\* the frames pending when _connect_internal is entered (it recurses through
\* _query_internal): without a receive loop ...
MaxFailures == 6
MaxDepth == 4
\* ... and with one
LoopMaxFailures == 2
LoopMaxDepth == 3
LoopMaxSleeps == 2

\* ------------------------------------------------------------------------
\* Value domains.
\* ------------------------------------------------------------------------
Callers == {"caller"}
Tasks == {"loop"} \cup Callers
ClientIPs == {"ip1", "ip2"}
\* device identities a handshake can report
Ids == {"X"}
\* keys of a data payload; a payload is the set of keys it carries
DpKeys == {"1"}
\* dpid lists the metadata lookup or a query response can yield
DpidLists == {{}, {"1"}}

Min(a, b) == IF a < b THEN a ELSE b

RECURSIVE Pow(_, _)
Pow(b, e) == IF e = 0 THEN 1 ELSE b * Pow(b, e - 1)

VARIABLES
    \* ---- TcpClient fields
    ip,                   \* _ip
    writer,               \* _writer/_reader: "none", "up" (open), "down" (is_closing())
    lock,                 \* _lock: "none" or the task that holds it
    available,            \* _available
    retry_count,          \* _retry_count
    backoffPending,       \* time.monotonic() < _next_retry_time
    consecutive_failures, \* _consecutive_failures
    idle,                 \* time.monotonic() - _last_activity >= HEARTBEAT_INTERVAL
    device_state,         \* _device_state
    is_closing,           \* _is_closing
    loopTask,             \* _receive_loop_task: "none", "running", "done"
    cancelReq,            \* cancel() was called on the loop task and not yet delivered
    last_state,           \* _last_state (set of keys present)
    device_id,            \* _info.device_id ("" when unknown)
    dpid,                 \* _info.dpid
    reconnect_delay,      \* _reconnect_delay
    delay,                \* the delay computed by the last failure of the current run (0: none)
    \* ---- tasks
    stack,                \* per task: the frames of its pending calls, innermost last
    ret,                  \* per task: the value returned by the call that just ended
    rd,                   \* per task: its pending reader.read(): "none", "cur" (on the open
                          \* socket), "stale" (on a closed one), "clash" (issued while
                          \* another task was waiting in read(): RuntimeError)
    \* ---- the bounds in force (constant through a behaviour)
    limits                \* [failures, depth, delay]

VARIABLES
    \* ---- one send-and-wait seen at the level of the received text
    sn,                   \* _sn: the correlation id of the request
    sent,                 \* the response lines the device sends, in order
    wire,                 \* the characters not yet received
    read_buffer,          \* _read_buffer
    attempt,              \* the read attempts made so far
    result,               \* what _send_receiver_internal returned
    pushed                \* the data payloads the receive loop dispatched, in order

parseVars == <<sn, sent, wire, read_buffer, attempt, result, pushed>>

VARIABLES
    \* ---- DeviceCoordinator and the TcpClient objects it handles
    devices,              \* _devices: pairs <<device_id, DeviceEntry>>
    ip_to_device,         \* _ip_to_device: pairs <<ip, device_id>>
    is_running,           \* _is_running
    clients,              \* the TcpClient objects, by object number
    probe,                \* per re-discovery task: its position and locals
    added                 \* what the last add_device call returned: "true",
                          \* "false", or "none" before the first call

VARIABLES
    \* ---- the network and what the coordinator sees of its clients
    where,                \* the address each device answers at ("off": none)
    link,                 \* per client object: device_state, the address its
                          \* socket is connected to and the device behind it
    offline_since,        \* the identities whose entry has offline_since set
    silent,               \* the devices that stopped answering, sockets left open
    notified,             \* the identities whose disconnect notification was sent
                          \* since their client last entered state Offline
    moves                 \* how many times a device moved or fell silent

netVars == <<where, link, offline_since, silent, notified, moves>>

coordVars == <<devices, ip_to_device, is_running, clients, probe, added, netVars>>

VARIABLES
    \* ---- the subscribers of a client
    state_callbacks,      \* _state_callbacks: the subscribers, in order
    invoked               \* the calls the last _dispatch_state made, in order

VARIABLES
    \* ---- the config entries of the integration
    hass_data,            \* hass.data[DOMAIN]: pairs <<entry_id, entry data>>
    connected,            \* the pairs <<entry_id, ip>> whose client has a socket
    timers,               \* the pairs <<entry_id, name>> of the running timers
    starts,               \* per entry: the calls of DeviceCoordinator.start()
    stops                 \* per entry: the calls of DeviceCoordinator.stop()

entryVars == <<hass_data, connected, timers, starts, stops>>

VARIABLES
    \* ---- what the handshake tells about the kind of device
    device_type_code,     \* _info.device_type_code ("": not known)
    handshake             \* the last handshake: the dtp of the answer and
                          \* whether the PID list had a model for its pid

typeVars == <<device_type_code, handshake>>

VARIABLES
    \* ---- the receive-loop tasks of one client and the calls that stop it
    loop_tasks,           \* the tasks create_task made: "new" (not yet),
                          \* "live" or "done"
    cancelled,            \* the tasks whose cancel() is not yet delivered
    receive_loop_task,    \* _receive_loop_task: a task, 0 for None
    stop_calls,           \* per calling task: where its
                          \* stop_persistent_connection() stands
    registered            \* the client is in _devices

loopsVars == <<loop_tasks, cancelled, receive_loop_task, stop_calls, registered>>

hostVars == <<state_callbacks, invoked, entryVars, typeVars, loopsVars>>

clientVars == <<ip, writer, lock, available, retry_count, backoffPending,
                consecutive_failures, idle, device_state, is_closing, loopTask,
                cancelReq, last_state, device_id, dpid, reconnect_delay, delay>>
taskVars == <<stack, ret, rd>>

vars == <<clientVars, taskVars, limits, parseVars, coordVars, hostVars>>

\* ------------------------------------------------------------------------
\* Frames and return values.
\* ------------------------------------------------------------------------
Frame(l, k, b) == [pc |-> l, n |-> k, f |-> b]
Fr(l) == Frame(l, 0, FALSE)
Top(t) == stack[t][Len(stack[t])]
Rest(t) == SubSeq(stack[t], 1, Len(stack[t]) - 1)
\* The labels at which a task is not suspended: the continuation of a call
\* that returned, or code before the first await.  asyncio switches tasks
\* only at an await that suspends, so a task at one of these labels runs on
\* before any other task, the clock or the peer acts.
Immediate == {"query", "connect_ret", "ci_after_info", "ci_finish", "sr_after_conn",
              "sr_reconn", "unlock", "ctl_after_conn", "ctl_reconn", "disc_fin",
              "stop_fin", "done", "loop_top", "loop_conn_ret", "loop_query_ret"}
Running(t) == Len(stack[t]) > 0 /\ Top(t).pc \in Immediate
\* no task is running: the event loop is free to resume a suspended task
Quiet == \A u \in Tasks : ~Running(u)
\* task t is at label l and is the one to run (a cancelled loop task only
\* unwinds)
At(t, l) ==
    /\ Len(stack[t]) > 0
    /\ Top(t).pc = l
    /\ ~(t = "loop" /\ cancelReq)
    /\ \A u \in Tasks \ {t} : ~Running(u)
\* task t has no call pending and may be given one
Idle(t) == stack[t] = <<>> /\ Quiet

RetBool(b) == [ok |-> b, data |-> {}]
RetData(d) == [ok |-> TRUE, data |-> d]
NoRet == RetBool(FALSE)

\* the pending calls of task t become s; a caller whose call has returned
\* holds the result (frame "done") until it takes it
SetStack(t, s) ==
    stack' = [stack EXCEPT ![t] = IF s = <<>> /\ t \in Callers THEN <<Fr("done")>> ELSE s]
SetRet(t, r) == ret' = [ret EXCEPT ![t] = r]
\* every read outstanding on the socket being closed will fail
Stale == [u \in Tasks |-> IF rd[u] = "cur" THEN "stale" ELSE rd[u]]
\* task t calls reader.read(): StreamReader.read raises RuntimeError when
\* another coroutine is already waiting for data on the same reader
IssueRd(t) ==
    IF writer # "up" THEN "stale"
    ELSE IF \E u \in Tasks \ {t} : rd[u] = "cur" THEN "clash"
    ELSE "cur"

\* ------------------------------------------------------------------------
\* Failure and success bookkeeping of TcpClient.
\* ------------------------------------------------------------------------
\* the reconnect delay computed for retry counter k, in 1/32 s
RetryDelay(k) ==
    Min((INITIAL_RETRY_DELAY * Pow(RETRY_BACKOFF_NUM, k - 1))
            \div Pow(RETRY_BACKOFF_DEN, k - 1),
        MAX_RETRY_DELAY)

\* the loop's reconnect delay after k failed connects in a row, in 1/2048 s
RECURSIVE ReconnectDelay(_)
ReconnectDelay(k) ==
    IF k = 0 THEN RECONNECT_MIN_INTERVAL
    ELSE Min((ReconnectDelay(k - 1) * RECONNECT_BACKOFF_NUM) \div RECONNECT_BACKOFF_DEN,
             RECONNECT_MAX_INTERVAL)

\* a client without hysteresis: any failure makes it unavailable
AvailableAfterAnyFailure == FALSE

\* a client that no failure makes unavailable
AvailableKept == available

\* availability after one more failure
AvailableAfterFailure ==
    IF consecutive_failures + 1 >= MAX_CONSECUTIVE_FAILURES THEN FALSE ELSE available

\* a retry counter that wraps at the cap instead of staying there
WrappedRetryCount == (retry_count % MAX_RETRY_ATTEMPTS) + 1

\* the retry counter after one more connection failure
NextRetryCount == Min(retry_count + 1, MAX_RETRY_ATTEMPTS)

\* _handle_connection_failure
HandleConnectionFailure ==
    /\ consecutive_failures < limits.failures
    /\ retry_count' = NextRetryCount
    /\ consecutive_failures' = consecutive_failures + 1
    /\ available' = AvailableAfterFailure
    /\ delay' = RetryDelay(retry_count')
    /\ backoffPending' = TRUE
    /\ UNCHANGED idle

\* a failure that is not counted
CommunicationFailureUncounted ==
    /\ consecutive_failures < limits.failures
    /\ idle' = FALSE
    /\ UNCHANGED <<consecutive_failures, available, retry_count, delay, backoffPending>>

\* _mark_communication_failure
MarkCommunicationFailure ==
    /\ consecutive_failures < limits.failures
    /\ consecutive_failures' = consecutive_failures + 1
    /\ available' = AvailableAfterFailure
    /\ idle' = FALSE
    /\ UNCHANGED <<retry_count, delay, backoffPending>>

\* _mark_communication_success
MarkCommunicationSuccess ==
    /\ available' = TRUE
    /\ consecutive_failures' = 0
    /\ retry_count' = 0
    /\ delay' = 0
    /\ backoffPending' = FALSE
    /\ idle' = FALSE

\* the bookkeeping variables the three operators above decide
healthVars == <<available, consecutive_failures, retry_count, delay, backoffPending, idle>>

\* ------------------------------------------------------------------------
\* Calls that run without suspension at the start of a step.
\* ------------------------------------------------------------------------
\* `await self._close_connection()` called with the frames `base` pending:
\* writer.close() is immediate, wait_closed() suspends, writer = None follows.
CloseStack(base) == IF writer # "none" THEN base \o <<Fr("close_end")>> ELSE base
CloseWriter == IF writer # "none" THEN "down" ELSE writer
CloseRd == IF writer # "none" THEN Stale ELSE rd

\* `await self._connect_internal()` called with the frames `base` pending and
\* the backoff test evaluating to `pend`: either returns False at once or
\* starts attempt 0, closing an existing socket first.
CIStack(base, pend) ==
    IF pend THEN base ELSE CloseStack(base \o <<Fr("ci_open")>>)
ConnectInternal(t, base, pend) ==
    /\ Len(base) < limits.depth
    /\ SetStack(t, CIStack(base, pend))
    /\ writer' = IF pend THEN writer ELSE CloseWriter
    /\ rd' = IF pend THEN rd ELSE CloseRd
    /\ ret' = IF pend THEN [ret EXCEPT ![t] = RetBool(FALSE)] ELSE ret

\* `await self._send_receiver_internal(CMD_QUERY, {})` called with `base`
\* pending: writes the package when connected, else connects first.
SendReceiverInternal(t, base) ==
    IF writer = "up"
    THEN /\ SetStack(t, base \o <<Fr("sr_drain")>>)
         /\ UNCHANGED <<writer, rd, ret>>
    ELSE /\ ConnectInternal(t, base \o <<Fr("sr_after_conn")>>, backoffPending)

loopCtl == <<is_closing, loopTask, cancelReq>>
infoVars == <<device_id, dpid>>

\* ------------------------------------------------------------------------
\* connect() and _connect_internal()
\* ------------------------------------------------------------------------
\* a caller task calls connect(force)
CallConnect(t, force) ==
    /\ t \in Callers
    /\ Idle(t)
    /\ SetStack(t, <<Frame("connect", 0, force)>>)
    /\ SetRet(t, NoRet)
    /\ UNCHANGED <<clientVars, rd>>
    /\ UNCHANGED <<limits, hostVars, parseVars, coordVars>>

\* a connect() that leaves _next_retry_time alone
PendingUnforced(force) == backoffPending

\* whether _connect_internal, entered from connect(force), finds the backoff
\* delay pending: connect zeroes _next_retry_time when forced
Pending(force) == IF force THEN FALSE ELSE backoffPending

\* connect(): takes the lock, clears the backoff when forced, and enters
\* _connect_internal.  The frame left behind records in n whether the
\* force flag cleared a pending backoff delay.
Connect(t) ==
    /\ At(t, "connect")
    /\ lock = "none"
    /\ lock' = t
    /\ LET f == Top(t).f
           pend == Pending(f)
           base == Rest(t) \o <<Frame("connect_ret", IF f /\ backoffPending THEN 1 ELSE 0, f)>>
       IN  /\ backoffPending' = pend
           /\ ConnectInternal(t, base, pend)
    /\ UNCHANGED <<ip, available, retry_count, consecutive_failures, idle, device_state,
                   loopCtl, last_state, infoVars, reconnect_delay, delay>>
    /\ UNCHANGED <<limits, hostVars, parseVars, coordVars>>

\* connect() returns: the lock is released
ConnectRet(t) ==
    /\ At(t, "connect_ret")
    /\ lock' = "none"
    /\ SetStack(t, Rest(t))
    /\ UNCHANGED <<ip, writer, healthVars, device_state, loopCtl, last_state,
                   infoVars, reconnect_delay, ret, rd>>
    /\ UNCHANGED <<limits, hostVars, parseVars, coordVars>>

\* the state set by a successful _connect_internal
ConnectSuccess ==
    /\ MarkCommunicationSuccess
    /\ device_state' = "online"

\* _connect_internal, attempt n: asyncio.open_connection completes.  On
\* success the INFO package of _device_info is written at once.
CiOpen(t) ==
    /\ At(t, "ci_open")
    /\ \E o \in {"ok", "fail"} :
        IF o = "ok"
        THEN /\ writer' = "up"
             /\ rd' = Stale
             /\ SetStack(t, Rest(t) \o <<Frame("ci_after_info", Top(t).n, FALSE),
                                         Fr("di_drain")>>)
             /\ UNCHANGED <<healthVars, ret>>
        ELSE IF Top(t).n < max_quick_retries - 1
        THEN /\ SetStack(t, Rest(t) \o <<Frame("ci_sleep", Top(t).n + 1, FALSE)>>)
             /\ UNCHANGED <<writer, rd, healthVars, ret>>
        ELSE /\ HandleConnectionFailure
             /\ SetRet(t, RetBool(FALSE))
             /\ SetStack(t, Rest(t))
             /\ UNCHANGED <<writer, rd>>
    /\ UNCHANGED <<ip, lock, device_state, loopCtl, last_state, infoVars, reconnect_delay>>
    /\ UNCHANGED <<limits, hostVars, parseVars, coordVars>>

\* _connect_internal after the 0.5 s sleep: the next attempt closes an
\* existing socket, then opens
CiSleep(t) ==
    /\ At(t, "ci_sleep")
    /\ SetStack(t, CloseStack(Rest(t) \o <<Frame("ci_open", Top(t).n, FALSE)>>))
    /\ writer' = CloseWriter
    /\ rd' = CloseRd
    /\ UNCHANGED <<ip, lock, healthVars, device_state, loopCtl, last_state,
                   infoVars, reconnect_delay, ret>>
    /\ UNCHANGED <<limits, hostVars, parseVars, coordVars>>

\* _device_info / _only_send: the drain of the INFO package completes, the
\* read of the response is issued
DiDrain(t) ==
    /\ At(t, "di_drain")
    /\ \E o \in {"ok", "fail"} :
        IF o = "ok"
        THEN /\ writer = "up"
             /\ idle' = FALSE
             /\ UNCHANGED <<available, consecutive_failures, retry_count, delay,
                            backoffPending>>
        ELSE MarkCommunicationFailure
    /\ SetStack(t, Rest(t) \o <<Fr("di_read")>>)
    /\ rd' = [rd EXCEPT ![t] = IssueRd(t)]
    /\ UNCHANGED <<ip, writer, lock, device_state, loopCtl, last_state,
                   infoVars, reconnect_delay, ret>>
    /\ UNCHANGED <<limits, hostVars, parseVars, coordVars>>

\* the frames below the _device_info frame and its _connect_internal frame
Rest2(t) == SubSeq(stack[t], 1, Len(stack[t]) - 2)
\* the attempt number of the _connect_internal that called _device_info
CiAttempt(t) == stack[t][Len(stack[t]) - 1].n

\* _device_info: the read of the INFO response completes.
\*   info    a response with a did; the metadata lookup may set the dpid list
\*   noid    timeout, no valid JSON, no msg or no did: returns silently
\*   raise   a JSON line that is no object: the exception leaves _device_info
\*   timeout the wait_for around _device_info expires
DiRead(t) ==
    /\ At(t, "di_read")
    /\ rd' = [rd EXCEPT ![t] = "none"]
    /\ \E o \in {"info", "noid", "raise", "timeout"} :
        CASE o = "info" ->
                /\ rd[t] = "cur"
                /\ \E d \in Ids, hit \in BOOLEAN, m \in DpidLists :
                    /\ device_id' = d
                    /\ dpid' = IF hit THEN m ELSE dpid
                /\ SetStack(t, Rest(t))
                /\ UNCHANGED <<healthVars, ret>>
          [] o = "noid" ->
                /\ SetStack(t, Rest(t))
                /\ UNCHANGED <<healthVars, ret, infoVars>>
          [] o = "raise" ->
                /\ rd[t] = "cur"
                /\ HandleConnectionFailure
                /\ SetRet(t, RetBool(FALSE))
                /\ SetStack(t, Rest2(t))
                /\ UNCHANGED infoVars
          [] o = "timeout" ->
                IF CiAttempt(t) < max_quick_retries - 1
                THEN /\ SetStack(t, Rest2(t) \o <<Frame("ci_sleep", CiAttempt(t) + 1, FALSE)>>)
                     /\ UNCHANGED <<healthVars, ret, infoVars>>
                ELSE /\ HandleConnectionFailure
                     /\ SetRet(t, RetBool(FALSE))
                     /\ SetStack(t, Rest2(t))
                     /\ UNCHANGED infoVars
    /\ UNCHANGED <<ip, writer, lock, device_state, loopCtl, last_state,
                   reconnect_delay>>
    /\ UNCHANGED <<limits, hostVars, parseVars, coordVars>>

\* _connect_internal after _device_info: queries when the dpid list is
\* empty, else succeeds
CiAfterInfo(t) ==
    /\ At(t, "ci_after_info")
    /\ IF dpid = {}
       THEN /\ SendReceiverInternal(t, Rest(t) \o <<Frame("ci_finish", Top(t).n, FALSE)>>)
            /\ UNCHANGED <<healthVars, device_state>>
       ELSE /\ ConnectSuccess
            /\ SetRet(t, RetBool(TRUE))
            /\ SetStack(t, Rest(t))
            /\ UNCHANGED <<writer, rd>>
    /\ UNCHANGED <<ip, lock, loopCtl, last_state, infoVars, reconnect_delay>>
    /\ UNCHANGED <<limits, hostVars, parseVars, coordVars>>

\* _connect_internal after _query_internal returned: succeeds
CiFinish(t) ==
    /\ At(t, "ci_finish")
    /\ ConnectSuccess
    /\ SetRet(t, RetBool(TRUE))
    /\ SetStack(t, Rest(t))
    /\ UNCHANGED <<ip, writer, lock, loopCtl, last_state, infoVars,
                   reconnect_delay, rd>>
    /\ UNCHANGED <<limits, hostVars, parseVars, coordVars>>

\* _close_connection after wait_closed(): writer and reader are cleared
CloseEnd(t) ==
    /\ At(t, "close_end")
    /\ writer' = "none"
    /\ SetStack(t, Rest(t))
    /\ UNCHANGED <<ip, lock, healthVars, device_state, loopCtl, last_state,
                   infoVars, reconnect_delay, ret, rd>>
    /\ UNCHANGED <<limits, hostVars, parseVars, coordVars>>

\* ------------------------------------------------------------------------
\* _send_receiver_internal() and query()
\* ------------------------------------------------------------------------
\* after the connect at the start (f false) or after the reconnect that
\* follows a failed send (f true): gives up, or writes the package
SrAfterConn(t) ==
    /\ At(t, "sr_after_conn")
    /\ IF ~ret[t].ok
       THEN /\ SetRet(t, RetData({}))
            /\ SetStack(t, Rest(t))
       ELSE /\ SetStack(t, Rest(t) \o <<Frame("sr_drain", 0, Top(t).f)>>)
            /\ UNCHANGED ret
    /\ UNCHANGED <<ip, writer, lock, healthVars, device_state, loopCtl, last_state,
                   infoVars, reconnect_delay, rd>>
    /\ UNCHANGED <<limits, hostVars, parseVars, coordVars>>

\* the write and drain of the package complete (f: this is the retry)
SrDrain(t) ==
    /\ At(t, "sr_drain")
    /\ \E o \in {"ok", "fail"} :
        IF o = "ok"
        THEN /\ writer = "up"
             /\ SetStack(t, Rest(t) \o <<Fr("sr_read")>>)
             /\ rd' = [rd EXCEPT ![t] = IssueRd(t)]
             /\ UNCHANGED <<writer, healthVars, ret>>
        ELSE IF ~Top(t).f
        THEN /\ SetStack(t, CloseStack(Rest(t) \o <<Fr("sr_reconn")>>))
             /\ writer' = CloseWriter
             /\ rd' = CloseRd
             /\ UNCHANGED <<healthVars, ret>>
        ELSE /\ MarkCommunicationFailure
             /\ SetStack(t, CloseStack(Rest(t)))
             /\ writer' = CloseWriter
             /\ rd' = CloseRd
             /\ SetRet(t, RetData({}))
    /\ UNCHANGED <<ip, lock, device_state, loopCtl, last_state, infoVars,
                   reconnect_delay>>
    /\ UNCHANGED <<limits, hostVars, parseVars, coordVars>>

\* after the close that follows a failed send: reconnect
SrReconn(t) ==
    /\ At(t, "sr_reconn")
    /\ ConnectInternal(t, Rest(t) \o <<Frame("sr_after_conn", 0, TRUE)>>, backoffPending)
    /\ UNCHANGED <<ip, lock, healthVars, device_state, loopCtl, last_state,
                   infoVars, reconnect_delay>>
    /\ UNCHANGED <<limits, hostVars, parseVars, coordVars>>

\* read attempt n of the wait for the response completes.
\*   match   the line with our sn, with a data object d and an attr list a
\*   badmsg  the line with our sn has no msg object or no data object
\*   again   a timeout, other lines only, or an unparsable line: next attempt
\*   empty   the peer closed
\*   error   the read raised
SrOutcomes == {"match", "badmsg", "again", "empty", "error"}

SrReadAs(t, o) ==
    /\ At(t, "sr_read")
    /\ o \in SrOutcomes
    /\  CASE o = "match" ->
                /\ rd[t] = "cur" /\ writer = "up"
                /\ \E d \in SUBSET DpKeys, a \in DpidLists :
                    /\ dpid' = IF dpid = {} THEN a ELSE dpid
                    /\ SetRet(t, RetData(d))
                /\ MarkCommunicationSuccess
                /\ SetStack(t, Rest(t))
                /\ rd' = [rd EXCEPT ![t] = "none"]
                /\ UNCHANGED writer
          [] o = "badmsg" ->
                /\ rd[t] = "cur" /\ writer = "up"
                /\ SetRet(t, RetData({}))
                /\ SetStack(t, Rest(t))
                /\ rd' = [rd EXCEPT ![t] = "none"]
                /\ UNCHANGED <<writer, healthVars, dpid>>
          [] o = "again" ->
                /\ rd[t] = "cur"
                /\ IF Top(t).n < MAX_RETRY_ATTEMPTS - 1
                   THEN /\ SetStack(t, Rest(t) \o <<Frame("sr_read", Top(t).n + 1, FALSE)>>)
                        /\ rd' = [rd EXCEPT ![t] = IssueRd(t)]
                        /\ UNCHANGED <<healthVars, ret>>
                   ELSE /\ MarkCommunicationFailure
                        /\ SetRet(t, RetData({}))
                        /\ SetStack(t, Rest(t))
                        /\ rd' = [rd EXCEPT ![t] = "none"]
                /\ UNCHANGED <<writer, dpid>>
          [] o \in {"empty", "error"} ->
                /\ MarkCommunicationFailure
                /\ SetRet(t, RetData({}))
                /\ SetStack(t, CloseStack(Rest(t)))
                /\ writer' = CloseWriter
                /\ rd' = [CloseRd EXCEPT ![t] = "none"]
                /\ UNCHANGED dpid
    /\ UNCHANGED <<ip, lock, device_state, loopCtl, last_state, device_id,
                   reconnect_delay>>
    /\ UNCHANGED <<limits, hostVars, parseVars, coordVars>>

SrRead(t) == \E o \in SrOutcomes : SrReadAs(t, o)

\* a caller task calls query()
CallQuery(t) ==
    /\ t \in Callers
    /\ Idle(t)
    /\ SetStack(t, <<Fr("query")>>)
    /\ SetRet(t, NoRet)
    /\ UNCHANGED <<clientVars, rd>>
    /\ UNCHANGED <<limits, hostVars, parseVars, coordVars>>

\* query(): the cached state when the receive loop runs and the cache is
\* not empty, else a direct query through _send_receiver
Query(t) ==
    /\ At(t, "query")
    /\ IF loopTask = "running" /\ last_state # {}
       THEN /\ SetRet(t, RetData(last_state))
            /\ SetStack(t, Rest(t))
       ELSE /\ SetStack(t, Rest(t) \o <<Fr("sr_lock")>>)
            /\ UNCHANGED ret
    /\ UNCHANGED <<clientVars, rd>>
    /\ UNCHANGED <<limits, hostVars, parseVars, coordVars>>

\* _send_receiver: takes the lock and enters _send_receiver_internal
SrLock(t) ==
    /\ At(t, "sr_lock")
    /\ lock = "none"
    /\ lock' = t
    /\ SendReceiverInternal(t, Rest(t) \o <<Fr("unlock")>>)
    /\ UNCHANGED <<ip, healthVars, device_state, loopCtl, last_state, infoVars,
                   reconnect_delay>>
    /\ UNCHANGED <<limits, hostVars, parseVars, coordVars>>

\* the end of an `async with self._lock` block: the lock is released
Unlock(t) ==
    /\ At(t, "unlock")
    /\ lock' = "none"
    /\ SetStack(t, Rest(t))
    /\ UNCHANGED <<ip, writer, healthVars, device_state, loopCtl, last_state,
                   infoVars, reconnect_delay, ret, rd>>
    /\ UNCHANGED <<limits, hostVars, parseVars, coordVars>>

\* ------------------------------------------------------------------------
\* control()
\* ------------------------------------------------------------------------
\* a caller task calls control(payload); persistent_mode (f) is evaluated
\* before the lock is requested
CallControl(t) ==
    /\ t \in Callers
    /\ Idle(t)
    /\ SetStack(t, <<Frame("ctl_lock", 0, loopTask = "running")>>)
    /\ SetRet(t, NoRet)
    /\ UNCHANGED <<clientVars, rd>>
    /\ UNCHANGED <<limits, hostVars, parseVars, coordVars>>

\* control(): takes the lock; writes the SET package when connected, else
\* connects first.  n = 1 marks the retry after a failed send.
CtlLock(t) ==
    /\ At(t, "ctl_lock")
    /\ lock = "none"
    /\ lock' = t
    /\ IF writer = "up"
       THEN /\ SetStack(t, Rest(t) \o <<Frame("ctl_drain", 0, Top(t).f)>>)
            /\ UNCHANGED <<writer, rd, ret>>
       ELSE /\ ConnectInternal(t, Rest(t) \o <<Frame("ctl_after_conn", 0, Top(t).f)>>,
                               backoffPending)
    /\ UNCHANGED <<ip, healthVars, device_state, loopCtl, last_state, infoVars,
                   reconnect_delay>>
    /\ UNCHANGED <<limits, hostVars, parseVars, coordVars>>

\* control() after _connect_internal returned: gives up, or writes
CtlAfterConn(t) ==
    /\ At(t, "ctl_after_conn")
    /\ IF ~ret[t].ok
       THEN /\ SetStack(t, Rest(t))
            /\ lock' = "none"
       ELSE /\ SetStack(t, Rest(t) \o <<Frame("ctl_drain", Top(t).n, Top(t).f)>>)
            /\ UNCHANGED lock
    /\ UNCHANGED <<ip, writer, healthVars, device_state, loopCtl, last_state,
                   infoVars, reconnect_delay, ret, rd>>
    /\ UNCHANGED <<limits, hostVars, parseVars, coordVars>>

\* a control() that awaits the acknowledgment in either mode
WaitsForAckAlways(persistent_mode) == TRUE
\* control() reads the acknowledgment itself only outside persistent mode
WaitsForAck(persistent_mode) == ~persistent_mode

\* control(): the write and drain of the SET package complete.  In
\* persistent mode a successful write returns at once, else the read of
\* the acknowledgment is issued.
CtlDrain(t) ==
    /\ At(t, "ctl_drain")
    /\ \E o \in {"ok", "fail"} :
        IF o = "ok"
        THEN /\ writer = "up"
             /\ IF ~WaitsForAck(Top(t).f)
                THEN /\ idle' = FALSE
                     /\ lock' = "none"
                     /\ SetRet(t, RetBool(TRUE))
                     /\ SetStack(t, Rest(t))
                     /\ UNCHANGED rd
                ELSE /\ SetStack(t, Rest(t) \o <<Fr("ctl_read")>>)
                     /\ rd' = [rd EXCEPT ![t] = IssueRd(t)]
                     /\ UNCHANGED <<idle, lock, ret>>
             /\ UNCHANGED <<writer, available, consecutive_failures, retry_count,
                            delay, backoffPending>>
        ELSE IF Top(t).n = 0
        THEN /\ SetStack(t, CloseStack(Rest(t) \o <<Frame("ctl_reconn", 1, Top(t).f)>>))
             /\ writer' = CloseWriter
             /\ rd' = CloseRd
             /\ UNCHANGED <<healthVars, lock, ret>>
        ELSE /\ MarkCommunicationFailure
             /\ SetStack(t, CloseStack(Rest(t) \o <<Fr("unlock")>>))
             /\ writer' = CloseWriter
             /\ rd' = CloseRd
             /\ SetRet(t, RetBool(FALSE))
             /\ UNCHANGED lock
    /\ UNCHANGED <<ip, device_state, loopCtl, last_state, infoVars,
                   reconnect_delay>>
    /\ UNCHANGED <<limits, hostVars, parseVars, coordVars>>

\* control() after the close that follows a failed send: reconnect
CtlReconn(t) ==
    /\ At(t, "ctl_reconn")
    /\ ConnectInternal(t, Rest(t) \o <<Frame("ctl_after_conn", 1, Top(t).f)>>,
                       backoffPending)
    /\ UNCHANGED <<ip, lock, healthVars, device_state, loopCtl, last_state,
                   infoVars, reconnect_delay>>
    /\ UNCHANGED <<limits, hostVars, parseVars, coordVars>>

\* control(), non-persistent mode: the read of the acknowledgment completes
CtlRead(t) ==
    /\ At(t, "ctl_read")
    /\ \E o \in {"data", "timeout", "empty", "error"} :
        CASE o = "data" ->
                /\ rd[t] = "cur" /\ writer = "up"
                /\ MarkCommunicationSuccess
                /\ SetRet(t, RetBool(TRUE))
                /\ SetStack(t, Rest(t))
                /\ lock' = "none"
                /\ rd' = [rd EXCEPT ![t] = "none"]
                /\ UNCHANGED writer
          [] o = "timeout" ->
                /\ rd[t] = "cur"
                /\ idle' = FALSE
                /\ SetRet(t, RetBool(TRUE))
                /\ SetStack(t, Rest(t))
                /\ lock' = "none"
                /\ rd' = [rd EXCEPT ![t] = "none"]
                /\ UNCHANGED <<writer, available, consecutive_failures, retry_count,
                               delay, backoffPending>>
          [] o \in {"empty", "error"} ->
                /\ MarkCommunicationFailure
                /\ SetRet(t, RetBool(FALSE))
                /\ SetStack(t, CloseStack(Rest(t) \o <<Fr("unlock")>>))
                /\ writer' = CloseWriter
                /\ rd' = [CloseRd EXCEPT ![t] = "none"]
                /\ UNCHANGED lock
    /\ UNCHANGED <<ip, device_state, loopCtl, last_state, infoVars,
                   reconnect_delay>>
    /\ UNCHANGED <<limits, hostVars, parseVars, coordVars>>

\* the caller takes the result of its call
Return(t) ==
    /\ At(t, "done")
    /\ stack' = [stack EXCEPT ![t] = <<>>]
    /\ SetRet(t, NoRet)
    /\ UNCHANGED <<clientVars, rd>>
    /\ UNCHANGED <<limits, hostVars, parseVars, coordVars>>

\* ------------------------------------------------------------------------
\* disconnect(), update_ip() and reconnect_with_new_ip()
\* ------------------------------------------------------------------------
\* a caller task calls disconnect()
CallDisconnect(t) ==
    /\ t \in Callers
    /\ Idle(t)
    /\ SetStack(t, <<Fr("disconnect")>>)
    /\ SetRet(t, NoRet)
    /\ UNCHANGED <<clientVars, rd>>
    /\ UNCHANGED <<limits, hostVars, parseVars, coordVars>>

\* disconnect(): takes the lock and closes the connection
Disconnect(t) ==
    /\ At(t, "disconnect")
    /\ lock = "none"
    /\ lock' = t
    /\ SetStack(t, CloseStack(Rest(t) \o <<Fr("disc_fin")>>))
    /\ writer' = CloseWriter
    /\ rd' = CloseRd
    /\ UNCHANGED <<ip, healthVars, device_state, loopCtl, last_state, infoVars,
                   reconnect_delay, ret>>
    /\ UNCHANGED <<limits, hostVars, parseVars, coordVars>>

\* a disconnect that leaves the retry state as it is
RetryStateKept == UNCHANGED <<retry_count, backoffPending, delay, consecutive_failures>>
\* disconnect(): _retry_count, _next_retry_time and _consecutive_failures
\* are reset
RetryStateReset ==
    /\ retry_count' = 0
    /\ backoffPending' = FALSE
    /\ delay' = 0
    /\ consecutive_failures' = 0

\* disconnect() after the close: resets the retry state, releases the lock
DiscFin(t) ==
    /\ At(t, "disc_fin")
    /\ RetryStateReset
    /\ lock' = "none"
    /\ SetStack(t, Rest(t))
    /\ UNCHANGED <<ip, writer, available, idle, device_state, loopCtl, last_state, infoVars, reconnect_delay, ret, rd>>
    /\ UNCHANGED <<limits, hostVars, parseVars, coordVars>>

\* update_ip(new_ip): the state it sets; nothing changes for the same IP
UpdateIp(new_ip) ==
    /\ ip' = new_ip
    /\ retry_count' = IF new_ip = ip THEN retry_count ELSE 0
    /\ backoffPending' = IF new_ip = ip THEN backoffPending ELSE FALSE
    /\ delay' = IF new_ip = ip THEN delay ELSE 0
    /\ reconnect_delay' = IF new_ip = ip THEN reconnect_delay ELSE RECONNECT_MIN_INTERVAL

\* a caller task calls reconnect_with_new_ip(new_ip): update_ip and the
\* start of _close_connection run at once, without the lock; connect(True)
\* follows
CallReconnectWithNewIp(t, new_ip) ==
    /\ t \in Callers
    /\ Idle(t)
    /\ UpdateIp(new_ip)
    /\ SetStack(t, CloseStack(<<Frame("connect", 0, TRUE)>>))
    /\ writer' = CloseWriter
    /\ rd' = CloseRd
    /\ SetRet(t, NoRet)
    /\ UNCHANGED <<lock, available, consecutive_failures, idle, device_state,
                   loopCtl, last_state, infoVars>>
    /\ UNCHANGED <<limits, hostVars, parseVars, coordVars>>

\* ------------------------------------------------------------------------
\* start_persistent_connection() and stop_persistent_connection()
\* ------------------------------------------------------------------------
\* whether start_persistent_connection creates a receive-loop task
StartsLoop == ~is_closing /\ loopTask # "running"

\* a caller task calls start_persistent_connection(): it runs at once
CallStart(t) ==
    /\ t \in Callers
    /\ Idle(t)
    /\ StartsLoop
    /\ is_closing' = FALSE
    /\ loopTask' = "running"
    /\ SetStack("loop", <<Fr("loop_top")>>)
    /\ UNCHANGED <<ip, writer, lock, healthVars, device_state, cancelReq, last_state, infoVars, reconnect_delay, ret, rd>>
    /\ UNCHANGED <<limits, hostVars, parseVars, coordVars>>

\* a stop that does not disconnect
StopTailNoDisconnect == <<Fr("stop_fin")>>
\* what stop_persistent_connection does once the loop task has ended:
\* disconnect(), then state Offline
StopTail == <<Fr("stop_fin"), Fr("disconnect")>>

\* a caller task calls stop_persistent_connection(): sets _is_closing,
\* cancels the loop task and awaits it; without a live task it goes on to
\* disconnect()
CallStop(t) ==
    /\ t \in Callers
    /\ Idle(t)
    /\ is_closing' = TRUE
    /\ IF loopTask = "running"
       THEN /\ cancelReq' = TRUE
            /\ SetStack(t, <<Fr("stop_wait")>>)
            /\ UNCHANGED loopTask
       ELSE /\ loopTask' = "none"
            /\ SetStack(t, StopTail)
            /\ UNCHANGED cancelReq
    /\ SetRet(t, NoRet)
    /\ UNCHANGED <<ip, writer, lock, healthVars, device_state, last_state,
                   infoVars, reconnect_delay, rd>>
    /\ UNCHANGED <<limits, hostVars, parseVars, coordVars>>

\* stop_persistent_connection(): the awaited loop task has ended
StopWait(t) ==
    /\ At(t, "stop_wait")
    /\ loopTask = "done"
    /\ loopTask' = "none"
    /\ SetStack(t, Rest(t) \o StopTail)
    /\ UNCHANGED <<ip, writer, lock, healthVars, device_state, is_closing, cancelReq,
                   last_state, infoVars, reconnect_delay, ret, rd>>
    /\ UNCHANGED <<limits, hostVars, parseVars, coordVars>>

\* stop_persistent_connection() after disconnect(): state Offline
StopFin(t) ==
    /\ At(t, "stop_fin")
    /\ device_state' = "offline"
    /\ SetStack(t, Rest(t))
    /\ UNCHANGED <<ip, writer, lock, healthVars, loopCtl, last_state, infoVars,
                   reconnect_delay, ret, rd>>
    /\ UNCHANGED <<limits, hostVars, parseVars, coordVars>>

\* ------------------------------------------------------------------------
\* _receive_loop()
\* ------------------------------------------------------------------------
\* CancelledError is delivered to the loop task at its current await: the
\* `async with` of a pending connect() releases the lock, the finally of a
\* pending _close_connection clears the writer, the task ends
LoopCancelled ==
    /\ Quiet
    /\ cancelReq
    /\ loopTask = "running"
    /\ loopTask' = "done"
    /\ cancelReq' = FALSE
    /\ lock' = IF lock = "loop" THEN "none" ELSE lock
    /\ writer' = IF Len(stack["loop"]) > 0 /\ Top("loop").pc = "close_end"
                 THEN "none" ELSE writer
    /\ SetStack("loop", <<>>)
    /\ rd' = [rd EXCEPT !["loop"] = "none"]
    /\ SetRet("loop", NoRet)
    /\ UNCHANGED <<ip, healthVars, device_state, is_closing, last_state,
                   infoVars, reconnect_delay>>
    /\ UNCHANGED <<limits, hostVars, parseVars, coordVars>>

\* the top of the while loop: ends when closing; connects when not
\* connected; else issues the read of phase 2
LoopTop ==
    /\ At("loop", "loop_top")
    /\ IF is_closing
       THEN /\ loopTask' = "done"
            /\ SetStack("loop", <<>>)
            /\ UNCHANGED <<device_state, rd>>
       ELSE IF writer # "up"
       THEN /\ device_state' = "connecting"
            /\ SetStack("loop", <<Fr("loop_conn_ret"), Frame("connect", 0, TRUE)>>)
                    /\ UNCHANGED <<loopTask, rd>>
       ELSE /\ device_state' = "online"
            /\ SetStack("loop", <<Fr("loop_read")>>)
            /\ rd' = [rd EXCEPT !["loop"] = IssueRd("loop")]
            /\ UNCHANGED <<loopTask>>
    /\ UNCHANGED <<ip, writer, lock, healthVars, is_closing, cancelReq, last_state, infoVars, reconnect_delay, ret>>
    /\ UNCHANGED <<limits, hostVars, parseVars, coordVars>>

\* connect(force=True) returned: on success state Online, the reconnect
\* delay reset and one query(); on failure state Offline and the sleep
LoopConnRet ==
    /\ At("loop", "loop_conn_ret")
    /\ IF ret["loop"].ok
       THEN /\ device_state' = "online"
            /\ reconnect_delay' = RECONNECT_MIN_INTERVAL
            /\ SetStack("loop", <<Fr("loop_query_ret"), Fr("query")>>)
       ELSE /\ device_state' = "offline"
            /\ SetStack("loop", <<Fr("loop_sleep")>>)
            /\ UNCHANGED reconnect_delay
    /\ SetRet("loop", NoRet)
    /\ UNCHANGED <<ip, writer, lock, healthVars, loopCtl, last_state, infoVars, rd>>
    /\ UNCHANGED <<limits, hostVars, parseVars, coordVars>>

\* _dispatch_state: the state is merged into the cache
DispatchState(state) == last_state' = last_state \cup state

\* query() returned: a non-empty state is dispatched; phase 2 follows
\* without a new is_connected() test
LoopQueryRet ==
    /\ At("loop", "loop_query_ret")
    /\ DispatchState(ret["loop"].data)
    /\ device_state' = "online"
    /\ IF writer = "none"
       THEN /\ SetStack("loop", <<Fr("loop_top")>>)
            /\ UNCHANGED rd
       ELSE /\ SetStack("loop", <<Fr("loop_read")>>)
            /\ rd' = [rd EXCEPT !["loop"] = IssueRd("loop")]
    /\ SetRet("loop", NoRet)
    /\ UNCHANGED <<ip, writer, lock, healthVars, loopCtl, infoVars, reconnect_delay>>
    /\ UNCHANGED <<limits, hostVars, parseVars, coordVars>>

\* a loop that does nothing more once the sleep after a failed connect ended
HaltsAfterSleep == <<>>

\* `continue` after the sleep: the loop is back at the test of its while
AfterSleep == <<Fr("loop_top")>>

\* the sleep after a failed connect ended: the reconnect delay grows
LoopSleep ==
    /\ At("loop", "loop_sleep")
    /\ reconnect_delay < limits.delay
    /\ reconnect_delay' = Min((reconnect_delay * RECONNECT_BACKOFF_NUM)
                                  \div RECONNECT_BACKOFF_DEN,
                              RECONNECT_MAX_INTERVAL)
    /\ stack' = [stack EXCEPT !["loop"] = AfterSleep]
    /\ UNCHANGED <<ip, writer, lock, healthVars, device_state, loopCtl, last_state, infoVars, ret, rd>>
    /\ UNCHANGED <<limits, hostVars, parseVars, coordVars>>

ReadOutcomes == {"data", "empty", "oserror", "timeout", "raise"}
DrainOutcomes == {"ok", "fail"}

\* a loop that writes a heartbeat after every read timeout
HeartbeatAlways == writer = "up"

\* needs_heartbeat(): connected, and HEARTBEAT_INTERVAL passed since the
\* last activity
NeedsHeartbeat == writer = "up" /\ idle

\* the read of phase 2 completes.  None of the socket operations that
\* follow is done under the lock.
\*   data     bytes arrived; d is the union of the data payloads of its lines
\*   empty    the peer closed
\*   oserror  ConnectionError or OSError
\*   timeout  no data: a heartbeat is written when needs_heartbeat()
\*   raise    any other exception (read() while another task is reading):
\*            the connection is closed, RECEIVE_LOOP_RETRY_DELAY is slept
LoopRead(o) ==
    /\ At("loop", "loop_read")
    /\  CASE o = "data" ->
                /\ rd["loop"] = "cur" /\ writer = "up"
                /\ \E d \in SUBSET DpKeys : DispatchState(d)
                /\ MarkCommunicationSuccess
                /\ SetStack("loop", <<Fr("loop_top")>>)
                /\ rd' = [rd EXCEPT !["loop"] = "none"]
                /\ UNCHANGED writer
          [] o \in {"empty", "oserror"} ->
                /\ rd["loop"] # "clash"
                /\ MarkCommunicationFailure
                /\ SetStack("loop", CloseStack(<<Fr("loop_top")>>))
                /\ writer' = CloseWriter
                /\ rd' = [CloseRd EXCEPT !["loop"] = "none"]
                /\ UNCHANGED last_state
          [] o = "timeout" ->
                /\ rd["loop"] = "cur"
                /\ IF NeedsHeartbeat
                   THEN SetStack("loop", <<Fr("loop_hb_drain")>>)
                   ELSE SetStack("loop", <<Fr("loop_top")>>)
                /\ rd' = [rd EXCEPT !["loop"] = "none"]
                /\ UNCHANGED <<writer, healthVars, last_state>>
          [] o = "raise" ->
                /\ rd["loop"] = "clash"
                /\ SetStack("loop", CloseStack(<<Fr("loop_pause")>>))
                /\ writer' = CloseWriter
                /\ rd' = [CloseRd EXCEPT !["loop"] = "none"]
                /\ UNCHANGED <<healthVars, last_state>>
    /\ UNCHANGED <<ip, lock, device_state, loopCtl, infoVars, reconnect_delay, ret>>
    /\ UNCHANGED <<limits, hostVars, parseVars, coordVars>>

\* the sleep after an unexpected error ended
LoopPause ==
    /\ At("loop", "loop_pause")
    /\ SetStack("loop", <<Fr("loop_top")>>)
    /\ UNCHANGED <<clientVars, ret, rd>>
    /\ UNCHANGED <<limits, hostVars, parseVars, coordVars>>

\* _send_heartbeat_internal: the drain of the heartbeat QUERY completes; a
\* failed heartbeat closes the connection
LoopHbDrain(o) ==
    /\ At("loop", "loop_hb_drain")
    /\  IF o = "ok"
        THEN /\ writer = "up"
             /\ idle' = FALSE
             /\ SetStack("loop", <<Fr("loop_top")>>)
             /\ UNCHANGED <<writer, rd>>
        ELSE /\ SetStack("loop", CloseStack(<<Fr("loop_top")>>))
             /\ writer' = CloseWriter
             /\ rd' = CloseRd
             /\ UNCHANGED idle
    /\ UNCHANGED <<ip, lock, available, consecutive_failures, retry_count, delay,
                   backoffPending, device_state, loopCtl, last_state, infoVars,
                   reconnect_delay, ret>>
    /\ UNCHANGED <<limits, hostVars, parseVars, coordVars>>

\* ------------------------------------------------------------------------
\* The environment: the clock and the peer.
\* ------------------------------------------------------------------------
\* the clock passes _next_retry_time
BackoffElapses ==
    /\ Quiet
    /\ backoffPending
    /\ backoffPending' = FALSE
    /\ UNCHANGED <<ip, writer, lock, available, retry_count, consecutive_failures,
                   idle, device_state, loopCtl, last_state, infoVars,
                   reconnect_delay, delay, taskVars>>
    /\ UNCHANGED <<limits, hostVars, parseVars, coordVars>>

\* HEARTBEAT_INTERVAL passes without activity.  Only needs_heartbeat(),
\* called when the loop's read times out, looks at the clock, so the event
\* is placed while that read is pending.
IdleElapses ==
    /\ Quiet
    /\ Len(stack["loop"]) > 0 /\ Top("loop").pc = "loop_read"
    /\ ~idle
    /\ idle' = TRUE
    /\ UNCHANGED <<ip, writer, lock, available, retry_count, consecutive_failures,
                   backoffPending, device_state, loopCtl, last_state, infoVars,
                   reconnect_delay, delay, taskVars>>
    /\ UNCHANGED <<limits, hostVars, parseVars, coordVars>>

\* the connection is lost: the transport closes, is_closing() becomes true
PeerReset ==
    /\ Quiet
    /\ writer = "up"
    /\ writer' = "down"
    /\ UNCHANGED <<ip, lock, healthVars, device_state, loopCtl, last_state,
                   infoVars, reconnect_delay, taskVars>>
    /\ UNCHANGED <<limits, hostVars, parseVars, coordVars>>

\* the network variables in a specification that does not follow the network
NetUnused ==
    /\ where = <<>>
    /\ link = <<>>
    /\ offline_since = {}
    /\ silent = {}
    /\ notified = {}
    /\ moves = 0

\* the subscriber variables in a specification that does not use them
EntryIds == {"e1", "e2", "e3"}

\* the config entry variables in a specification that does not use them
EntryUnused ==
    /\ hass_data = {}
    /\ connected = {}
    /\ timers = {}
    /\ starts = [e \in EntryIds |-> 0]
    /\ stops = [e \in EntryIds |-> 0]

MaxLoops == 2
LoopIds == 1..MaxLoops
CallIds == {"a", "b", "c"}
NoStop == [pc |-> "idle", task |-> 0]

\* the receive-loop task variables of a client just constructed
LoopsUnused ==
    /\ loop_tasks = [i \in LoopIds |-> "new"]
    /\ cancelled = {}
    /\ receive_loop_task = 0
    /\ stop_calls = [o \in CallIds |-> NoStop]
    /\ registered = FALSE

\* the device type variables in a specification that does not use them
TypeUnused ==
    /\ device_type_code = ""
    /\ handshake = [dtp |-> "", hit |-> FALSE]

\* the subscriber variables in a specification that does not use them
HostUnused ==
    /\ state_callbacks = <<>>
    /\ invoked = <<>>
    /\ EntryUnused
    /\ TypeUnused
    /\ LoopsUnused

\* the coordinator variables in a specification that does not use them
CoordUnused ==
    /\ devices = {}
    /\ ip_to_device = {}
    /\ is_running = FALSE
    /\ clients = <<>>
    /\ probe = <<>>
    /\ added = "none"
    /\ NetUnused

\* the text-level variables in a specification that does not use them
ParseUnused ==
    /\ sn = <<>>
    /\ sent = <<>>
    /\ wire = <<>>
    /\ read_buffer = <<>>
    /\ attempt = 0
    /\ result = [kind |-> "unused", data |-> <<>>]
    /\ pushed = <<>>

\* ------------------------------------------------------------------------
\* The client specification.
\* ------------------------------------------------------------------------
ClientInit ==
    /\ ip = "ip1"
    /\ writer = "none"
    /\ lock = "none"
    /\ available = FALSE
    /\ retry_count = 0
    /\ backoffPending = FALSE
    /\ consecutive_failures = 0
    /\ idle = TRUE
    /\ device_state = "unknown"
    /\ is_closing = FALSE
    /\ loopTask = "none"
    /\ cancelReq = FALSE
    /\ last_state = {}
    /\ device_id = ""
    /\ dpid = {}
    /\ reconnect_delay = RECONNECT_MIN_INTERVAL
    /\ delay = 0
    /\ stack = [t \in Tasks |-> <<>>]
    /\ ret = [t \in Tasks |-> NoRet]
    /\ rd = [t \in Tasks |-> "none"]
    /\ ParseUnused
    /\ CoordUnused

Init ==
    /\ ClientInit
    /\ HostUnused
    /\ limits = [failures |-> LoopMaxFailures, depth |-> LoopMaxDepth,
                 delay |-> ReconnectDelay(LoopMaxSleeps)]

Next ==
    \/ \E t \in Callers : CallQuery(t)
    \/ \E t \in Callers : CallControl(t)
    \/ \E t \in Callers : CallDisconnect(t)
    \/ \E t \in Callers : CallStart(t)
    \/ \E t \in Callers : CallStop(t)
    \/ \E t \in Callers : Return(t)
    \/ \E t \in Tasks : Connect(t)
    \/ \E t \in Tasks : ConnectRet(t)
    \/ \E t \in Tasks : CiOpen(t)
    \/ \E t \in Tasks : CiSleep(t)
    \/ \E t \in Tasks : DiDrain(t)
    \/ \E t \in Tasks : DiRead(t)
    \/ \E t \in Tasks : CiAfterInfo(t)
    \/ \E t \in Tasks : CiFinish(t)
    \/ \E t \in Tasks : CloseEnd(t)
    \/ \E t \in Tasks : SrAfterConn(t)
    \/ \E t \in Tasks : SrDrain(t)
    \/ \E t \in Tasks : SrReconn(t)
    \/ \E t \in Tasks : SrRead(t)
    \/ \E t \in Tasks : Query(t)
    \/ \E t \in Tasks : SrLock(t)
    \/ \E t \in Tasks : Unlock(t)
    \/ \E t \in Callers : CtlLock(t)
    \/ \E t \in Callers : CtlAfterConn(t)
    \/ \E t \in Callers : CtlDrain(t)
    \/ \E t \in Callers : CtlReconn(t)
    \/ \E t \in Callers : CtlRead(t)
    \/ \E t \in Callers : Disconnect(t)
    \/ \E t \in Callers : DiscFin(t)
    \/ \E t \in Callers : StopWait(t)
    \/ \E t \in Callers : StopFin(t)
    \/ LoopCancelled
    \/ LoopTop
    \/ LoopConnRet
    \/ LoopQueryRet
    \/ LoopSleep
    \/ \E o \in ReadOutcomes : LoopRead(o)
    \/ LoopPause
    \/ \E o \in DrainOutcomes : LoopHbDrain(o)
    \/ BackoffElapses
    \/ IdleElapses

Spec == Init /\ [][Next]_vars

\* ------------------------------------------------------------------------
\* The receive loop under fair scheduling, next to a task that starts and
\* stops it and calls query().
\* ------------------------------------------------------------------------
LiveMaxSleeps == 1

InitLoop ==
    /\ ClientInit
    /\ HostUnused
    /\ limits = [failures |-> LoopMaxFailures, depth |-> LoopMaxDepth,
                 delay |-> ReconnectDelay(LiveMaxSleeps)]

NextLoop ==
    \/ \E t \in Callers : CallQuery(t)
    \/ \E t \in Callers : CallStart(t)
    \/ \E t \in Callers : CallStop(t)
    \/ \E t \in Callers : Return(t)
    \/ \E t \in Tasks : Connect(t)
    \/ \E t \in Tasks : ConnectRet(t)
    \/ \E t \in Tasks : CiOpen(t)
    \/ \E t \in Tasks : CiSleep(t)
    \/ \E t \in Tasks : DiDrain(t)
    \/ \E t \in Tasks : DiRead(t)
    \/ \E t \in Tasks : CiAfterInfo(t)
    \/ \E t \in Tasks : CiFinish(t)
    \/ \E t \in Tasks : CloseEnd(t)
    \/ \E t \in Tasks : SrAfterConn(t)
    \/ \E t \in Tasks : SrDrain(t)
    \/ \E t \in Tasks : SrReconn(t)
    \/ \E t \in Tasks : SrRead(t)
    \/ \E t \in Tasks : Query(t)
    \/ \E t \in Tasks : SrLock(t)
    \/ \E t \in Tasks : Unlock(t)
    \/ \E t \in Callers : Disconnect(t)
    \/ \E t \in Callers : DiscFin(t)
    \/ \E t \in Callers : StopWait(t)
    \/ \E t \in Callers : StopFin(t)
    \/ LoopCancelled
    \/ LoopTop
    \/ LoopConnRet
    \/ LoopQueryRet
    \/ LoopSleep
    \/ \E o \in ReadOutcomes : LoopRead(o)
    \/ LoopPause
    \/ \E o \in DrainOutcomes : LoopHbDrain(o)
    \/ BackoffElapses
    \/ IdleElapses

\* the steps of a task inside connect(), query() and _close_connection()
TaskStep(t) ==
    \/ ConnectRet(t) \/ CiOpen(t) \/ CiSleep(t) \/ DiDrain(t) \/ DiRead(t)
    \/ CiAfterInfo(t) \/ CiFinish(t) \/ CloseEnd(t) \/ SrAfterConn(t)
    \/ SrDrain(t) \/ SrReconn(t) \/ SrRead(t) \/ Query(t) \/ Unlock(t)

LoopStep ==
    \/ TaskStep("loop") \/ Connect("loop") \/ SrLock("loop") \/ LoopCancelled \/ LoopTop \/ LoopConnRet \/ LoopQueryRet
    \/ LoopSleep \/ LoopPause
    \/ \E o \in ReadOutcomes : LoopRead(o)
    \/ \E o \in DrainOutcomes : LoopHbDrain(o)

CallerStep(t) ==
    \/ TaskStep(t) \/ Connect(t) \/ SrLock(t) \/ Return(t)
    \/ Disconnect(t) \/ DiscFin(t) \/ StopWait(t) \/ StopFin(t)

\* The event loop runs every task that is ready, every await on the socket
\* and every sleep ends (with a result or a timeout), and asyncio.Lock wakes
\* its waiters in turn: a step of a task that is possible again and again
\* is taken.  Calls from outside (query, start, stop) and the passing of
\* the backoff and heartbeat deadlines are not forced.
FairLoop ==
    /\ SF_vars(LoopStep)
    /\ \A t \in Callers : SF_vars(CallerStep(t))

SpecLoop == InitLoop /\ [][NextLoop]_vars /\ FairLoop

\* ------------------------------------------------------------------------
\* The client alone: one caller task issues the public calls one after the
\* other, no receive loop runs.
\* ------------------------------------------------------------------------
InitCalls ==
    /\ ClientInit
    /\ HostUnused
    /\ limits = [failures |-> MaxFailures, depth |-> MaxDepth,
                 delay |-> RECONNECT_MIN_INTERVAL]

NextCalls ==
    \/ \E t \in Callers, force \in BOOLEAN : CallConnect(t, force)
    \/ \E t \in Callers : CallQuery(t)
    \/ \E t \in Callers : CallControl(t)
    \/ \E t \in Callers : CallDisconnect(t)
    \/ \E t \in Callers, new_ip \in ClientIPs : CallReconnectWithNewIp(t, new_ip)
    \/ \E t \in Callers : Return(t)
    \/ \E t \in Callers : Connect(t)
    \/ \E t \in Callers : ConnectRet(t)
    \/ \E t \in Callers : CiOpen(t)
    \/ \E t \in Callers : CiSleep(t)
    \/ \E t \in Callers : DiDrain(t)
    \/ \E t \in Callers : DiRead(t)
    \/ \E t \in Callers : CiAfterInfo(t)
    \/ \E t \in Callers : CiFinish(t)
    \/ \E t \in Callers : CloseEnd(t)
    \/ \E t \in Callers : SrAfterConn(t)
    \/ \E t \in Callers : SrDrain(t)
    \/ \E t \in Callers : SrReconn(t)
    \/ \E t \in Callers : SrRead(t)
    \/ \E t \in Callers : Query(t)
    \/ \E t \in Callers : SrLock(t)
    \/ \E t \in Callers : Unlock(t)
    \/ \E t \in Callers : CtlLock(t)
    \/ \E t \in Callers : CtlAfterConn(t)
    \/ \E t \in Callers : CtlDrain(t)
    \/ \E t \in Callers : CtlReconn(t)
    \/ \E t \in Callers : CtlRead(t)
    \/ \E t \in Callers : Disconnect(t)
    \/ \E t \in Callers : DiscFin(t)
    \/ BackoffElapses
    \/ PeerReset

SpecCalls == InitCalls /\ [][NextCalls]_vars

TypeOK ==
    /\ ip \in ClientIPs
    /\ writer \in {"none", "up", "down"}
    /\ \A t \in Tasks : rd[t] \in {"none", "cur", "stale", "clash"}
    /\ lock \in {"none"} \cup Tasks
    /\ retry_count \in 0..MAX_RETRY_ATTEMPTS
    /\ consecutive_failures \in 0..limits.failures
    /\ loopTask \in {"none", "running", "done"}
    /\ last_state \subseteq DpKeys
    /\ device_id \in {""} \cup Ids
    /\ dpid \in DpidLists

\* ------------------------------------------------------------------------
\* The received text of one send-and-wait: _send_receiver_internal from its
\* read loop on, and _parse_json_lines.
\*
\* A text is a sequence of characters.  A response line is written
\* "{" sn ":" data "}" and lines end with the character "n" (the device's
\* "\r\n", which _parse_json_lines turns into "\n"); sn and data are digit
\* strings, data standing for the text of the msg.data object.
\* ------------------------------------------------------------------------
SnLen == 1
MaxDataLen == 1
MaxLines == 2

Digits == {"1", "2"}
RECURSIVE DigitStrings(_)
DigitStrings(k) ==
    IF k = 0 THEN {<<>>}
    ELSE {<<c>> \o r : c \in Digits, r \in DigitStrings(k - 1)}
\* the correlation ids: get_sn() gives strings of one length
Sns == DigitStrings(SnLen)
Datas == UNION {DigitStrings(k) : k \in 0..MaxDataLen}
\* the response objects a device may send
Responses == [sn : Sns, data : Datas]

\* the text of one response object
Dumps(r) == <<"{">> \o r.sn \o <<":">> \o r.data \o <<"}">>
\* the text the device sends for a sequence of response objects
RECURSIVE WireOf(_)
WireOf(rs) ==
    IF rs = <<>> THEN <<>>
    ELSE Dumps(Head(rs)) \o <<"n">> \o WireOf(Tail(rs))

\* Python's `t in s` on strings
Contains(s, t) ==
    \E i \in 1..(Len(s) - Len(t) + 1) : SubSeq(s, i, i + Len(t) - 1) = t

\* str.split("\n")
RECURSIVE Split(_)
Split(s) ==
    IF \A i \in 1..Len(s) : s[i] # "n" THEN <<s>>
    ELSE LET k == CHOOSE i \in 1..Len(s) : s[i] = "n" /\ \A j \in 1..(i - 1) : s[j] # "n"
         IN  <<SubSeq(s, 1, k - 1)>> \o Split(SubSeq(s, k + 1, Len(s)))

AllDigits(s) == \A i \in 1..Len(s) : s[i] \in Digits
\* json.loads on one line: the object when the line is a whole response
\* text, else JSONDecodeError (ok false)
Loads(line) ==
    LET k == Len(line)
        colons == {i \in 1..k : line[i] = ":"}
        c == IF colons = {} THEN 0 ELSE CHOOSE i \in colons : \A j \in colons : i <= j
    IN  IF /\ k >= 3
           /\ line[1] = "{"
           /\ line[k] = "}"
           /\ c > 2
           /\ AllDigits(SubSeq(line, 2, c - 1))
           /\ AllDigits(SubSeq(line, c + 1, k - 1))
        THEN [ok |-> TRUE, sn |-> SubSeq(line, 2, c - 1), data |-> SubSeq(line, c + 1, k - 1)]
        ELSE [ok |-> FALSE, sn |-> <<>>, data |-> <<>>]

\* _parse_json_lines on the lines left: the first non-empty line that
\* contains target_sn and parses, else None (ok false)
RECURSIVE ParseLines(_, _)
ParseLines(lines, target_sn) ==
    IF lines = <<>> THEN [ok |-> FALSE, sn |-> <<>>, data |-> <<>>]
    ELSE LET line == Head(lines)
         IN  IF line # <<>> /\ Contains(line, target_sn) /\ Loads(line).ok
             THEN Loads(line)
             ELSE ParseLines(Tail(lines), target_sn)

\* _parse_json_lines
ParseJsonLines(data, target_sn) == ParseLines(Split(data), target_sn)

Waiting == [kind |-> "pending", data |-> <<>>]
\* `return {}`
Empty == [kind |-> "empty", data |-> <<>>]

\* one read attempt returns the next k characters
SrReadText ==
    /\ result = Waiting
    /\ attempt < MAX_RETRY_ATTEMPTS
    /\ \E k \in 1..Len(wire) :
        LET buf == read_buffer \o SubSeq(wire, 1, k)
            response_payload == ParseJsonLines(buf, sn)
        IN  /\ wire' = SubSeq(wire, k + 1, Len(wire))
            /\ IF Contains(buf, sn)
               THEN /\ read_buffer' = <<>>
                    /\ result' = IF response_payload.ok
                                 THEN [kind |-> "data", data |-> response_payload.data]
                                 ELSE Waiting
               ELSE /\ read_buffer' = buf
                    /\ UNCHANGED result
    /\ attempt' = attempt + 1
    /\ UNCHANGED <<sn, sent, pushed>>
    /\ UNCHANGED <<clientVars, taskVars, limits, hostVars, coordVars>>

\* one read attempt times out: the buffer is dropped; the last attempt
\* returns {}
SrReadTimeout ==
    /\ result = Waiting
    /\ attempt < MAX_RETRY_ATTEMPTS
    /\ read_buffer' = <<>>
    /\ attempt' = attempt + 1
    /\ result' = IF attempt = MAX_RETRY_ATTEMPTS - 1 THEN Empty ELSE Waiting
    /\ UNCHANGED <<sn, sent, wire, pushed>>
    /\ UNCHANGED <<clientVars, taskVars, limits, hostVars, coordVars>>

\* all attempts used without a response: returns {}
SrReadExhausted ==
    /\ result = Waiting
    /\ attempt = MAX_RETRY_ATTEMPTS
    /\ read_buffer' = <<>>
    /\ result' = Empty
    /\ UNCHANGED <<sn, sent, wire, attempt, pushed>>
    /\ UNCHANGED <<clientVars, taskVars, limits, hostVars, coordVars>>

InitParse ==
    /\ ip = "ip1"
    /\ writer = "up"
    /\ lock = "caller"
    /\ available = TRUE
    /\ retry_count = 0
    /\ backoffPending = FALSE
    /\ consecutive_failures = 0
    /\ idle = FALSE
    /\ device_state = "online"
    /\ is_closing = FALSE
    /\ loopTask = "none"
    /\ cancelReq = FALSE
    /\ last_state = {}
    /\ device_id = "X"
    /\ dpid = {"1"}
    /\ reconnect_delay = RECONNECT_MIN_INTERVAL
    /\ delay = 0
    /\ stack = [t \in Tasks |-> <<>>]
    /\ ret = [t \in Tasks |-> NoRet]
    /\ rd = [t \in Tasks |-> "none"]
    /\ HostUnused
    /\ limits = [failures |-> 0, depth |-> 0, delay |-> 0]
    /\ CoordUnused
    /\ sn \in Sns
    /\ sent \in UNION {[1..n -> Responses] : n \in 1..MaxLines}
    /\ wire = WireOf(sent)
    /\ read_buffer = <<>>
    /\ attempt = 0
    /\ result = Waiting
    /\ pushed = <<>>

NextParse ==
    \/ SrReadText
    \/ SrReadTimeout
    \/ SrReadExhausted

SpecParse == InitParse /\ [][NextParse]_vars

\* ------------------------------------------------------------------------
\* The receive loop seen at the level of the received text: each read of
\* phase 2 is handed to _process_received_data on its own.
\* ------------------------------------------------------------------------
\* _process_received_data on the lines left: the data payloads dispatched,
\* in order.  A line that json.loads rejects is skipped, and so is a line
\* without a data payload.
RECURSIVE DispatchedOf(_)
DispatchedOf(lines) ==
    IF lines = <<>> THEN <<>>
    ELSE LET line == Head(lines)
             parsed == Loads(line)
         IN  (IF line # <<>> /\ parsed.ok /\ parsed.data # <<>>
              THEN <<parsed.data>> ELSE <<>>) \o DispatchedOf(Tail(lines))

\* _process_received_data
ProcessReceivedData(data_str) == DispatchedOf(Split(data_str))

\* one read of phase 2 returns the next k characters, which are processed
PushRead ==
    /\ wire # <<>>
    /\ \E k \in 1..Len(wire) :
        /\ pushed' = pushed \o ProcessReceivedData(SubSeq(wire, 1, k))
        /\ wire' = SubSeq(wire, k + 1, Len(wire))
    /\ UNCHANGED <<sn, sent, read_buffer, attempt, result>>
    /\ UNCHANGED <<clientVars, taskVars, limits, hostVars, coordVars>>

InitPush ==
    /\ ip = "ip1"
    /\ writer = "up"
    /\ lock = "none"
    /\ available = TRUE
    /\ retry_count = 0
    /\ backoffPending = FALSE
    /\ consecutive_failures = 0
    /\ idle = FALSE
    /\ device_state = "online"
    /\ is_closing = FALSE
    /\ loopTask = "running"
    /\ cancelReq = FALSE
    /\ last_state = {}
    /\ device_id = "X"
    /\ dpid = {"1"}
    /\ reconnect_delay = RECONNECT_MIN_INTERVAL
    /\ delay = 0
    /\ stack = [t \in Tasks |-> IF t = "loop" THEN <<Fr("loop_read")>> ELSE <<>>]
    /\ ret = [t \in Tasks |-> NoRet]
    /\ rd = [t \in Tasks |-> IF t = "loop" THEN "cur" ELSE "none"]
    /\ HostUnused
    /\ limits = [failures |-> 0, depth |-> 0, delay |-> 0]
    /\ CoordUnused
    /\ sn = <<>>
    /\ sent \in UNION {[1..n -> Responses] : n \in 1..MaxLines}
    /\ wire = WireOf(sent)
    /\ read_buffer = <<>>
    /\ attempt = 0
    /\ result = [kind |-> "unused", data |-> <<>>]
    /\ pushed = <<>>

NextPush ==
    \/ PushRead

SpecPush == InitPush /\ [][NextPush]_vars

\* ------------------------------------------------------------------------
\* DeviceCoordinator: the registry, start() and stop(), and the periodic
\* ("scan") and targeted ("find") re-discovery tasks.  A TcpClient object
\* is seen from outside: its address, _is_closing and whether its
\* receive-loop task is live.  Objs are the clients that
\* were registered; the temporary client of a re-discovery task is a local
\* of the task (tconn: its socket is open).
\* ------------------------------------------------------------------------
MaxClients == 2

Hosts == {"ip1", "ip2"}
DeviceIds == {"X", "Y"}
Objs == 1..MaxClients
Probes == {"scan", "find"}

\* an unused object number
Fresh == [used |-> FALSE, ip |-> "", closing |-> FALSE, loop |-> FALSE,
          subscribed |-> FALSE]
\* TcpClient(ip)
NewClient(a) == [Fresh EXCEPT !.used = TRUE, !.ip = a]
FreeObjs == {o \in Objs : ~clients[o].used}
NextObj == CHOOSE o \in FreeObjs : \A q \in FreeObjs : o <= q

\* ---- Python dicts as sets of <<key, value>> pairs
Keys(m) == {p[1] : p \in m}
\* m.pop(k, None)
DictPop(m, k) == {p \in m : p[1] # k}
\* a store that keeps what the key held before
DictSetKeeping(m, k, v) == m \cup {<<k, v>>}
\* m[k] = v
DictSet(m, k, v) == DictPop(m, k) \cup {<<k, v>>}
\* m[k]
Get(m, k) == (CHOOSE p \in m : p[1] = k)[2]

\* the clients of the registered entries
Registered == {p[2].client : p \in devices}

\* a start that starts nothing
NeverStarted(c) == c
\* TcpClient.start_persistent_connection
StartPersistent(c) == IF c.closing \/ c.loop THEN c ELSE [c EXCEPT !.loop = TRUE]
\* TcpClient.stop_persistent_connection
StopPersistent(c) == [c EXCEPT !.closing = TRUE, !.loop = FALSE]

\* an IP map that keeps the key of the old address
MovedIpMapKeepingOld(old_ip, a, d) == DictSet(ip_to_device, a, d)
\* the IP map after identity d moved from old_ip to a
MovedIpMap(old_ip, a, d) == DictSet(DictPop(ip_to_device, old_ip), a, d)
\* an entry whose ip is not updated
DevicesKept(d, a) == devices
\* `entry.ip = a` on the entry of identity d
MovedDevices(d, a) ==
    {IF p[1] = d THEN <<d, [p[2] EXCEPT !.ip = a]>> ELSE p : p \in devices}

\* start(): sets _is_running, starts the timers and the persistent
\* connection of every registered client
Start ==
    /\ ~is_running
    /\ is_running' = TRUE
    /\ clients' = [o \in Objs |-> IF o \in Registered THEN StartPersistent(clients[o])
                                  ELSE clients[o]]
    /\ UNCHANGED <<devices, ip_to_device, probe>>
    /\ UNCHANGED <<clientVars, taskVars, limits, hostVars, parseVars, added, netVars>>

\* stop(): clears _is_running, cancels the timers and stops the persistent
\* connection of every registered client
Stop ==
    /\ is_running \/ \E o \in Registered : ~clients[o].closing
    /\ is_running' = FALSE
    /\ clients' = [o \in Objs |-> IF o \in Registered THEN StopPersistent(clients[o])
                                  ELSE clients[o]]
    /\ UNCHANGED <<devices, ip_to_device, probe>>
    /\ UNCHANGED <<clientVars, taskVars, limits, hostVars, parseVars, added, netVars>>

\* add_device(client) for client object o, by now holding record c, whose
\* handshake gave identity d; a client that is not registered is dropped by
\* its creator
AddDeviceOf(o, c, d) ==
    LET a == c.ip
    IN  IF d = ""
        THEN /\ added' = "false"
             /\ UNCHANGED <<devices, ip_to_device, clients>>
        ELSE IF d \in Keys(devices)
        THEN LET entry == Get(devices, d)
             IN  /\ added' = "false"
                 /\ IF entry.ip # a
                    THEN /\ ip_to_device' = MovedIpMap(entry.ip, a, d)
                         /\ devices' = MovedDevices(d, a)
                         /\ clients' = [clients EXCEPT ![entry.client].ip = a]
                    ELSE UNCHANGED <<devices, ip_to_device, clients>>
        ELSE /\ devices' = DictSet(devices, d, [device_id |-> d, ip |-> a, client |-> o])
             /\ ip_to_device' = DictSet(ip_to_device, a, d)
             /\ clients' = [clients EXCEPT ![o] =
                               LET sub == [c EXCEPT !.subscribed = TRUE]
                               IN  IF is_running THEN StartPersistent(sub) ELSE sub]
             /\ added' = "true"

\* the integration calls add_device with a client at address a whose
\* handshake gave identity d ("": none)
AddDevice(a, d) ==
    /\ FreeObjs # {}
    /\ AddDeviceOf(NextObj, NewClient(a), d)
    /\ UNCHANGED <<is_running, probe>>
    /\ UNCHANGED <<clientVars, taskVars, limits, hostVars, parseVars, netVars>>

\* remove_device(d): the client is stopped and the entry dropped; nothing
\* refers to the client object afterwards
RemoveDevice(d) ==
    /\ d \in Keys(devices)
    /\ LET entry == Get(devices, d)
       IN  /\ devices' = DictPop(devices, d)
           /\ ip_to_device' = DictPop(ip_to_device, entry.ip)
           /\ clients' = [clients EXCEPT ![entry.client] = Fresh]
    /\ UNCHANGED <<is_running, probe>>
    /\ UNCHANGED <<clientVars, taskVars, limits, hostVars, parseVars, added, netVars>>

\* ---- the re-discovery tasks
ProbeIdle == [pc |-> "idle", todo |-> {}, ip |-> "", tconn |-> FALSE, target |-> "",
              dev |-> "", old |-> "", found |-> FALSE]
\* task t back at the top of its loop, the locals of the last pass forgotten
ProbeAgain(t) == [ProbeIdle EXCEPT !.pc = "next", !.todo = probe[t].todo,
                                   !.target = probe[t].target]

\* _async_rediscovery: the scan returned `discovered`; the addresses the
\* IP map does not know are checked by _check_new_ips
ScanStartOn(discovered) ==
    /\ is_running
    /\ probe["scan"].pc = "idle"
    /\ LET new_ips == discovered \ Keys(ip_to_device)
       IN  /\ new_ips # {}
           /\ probe' = [probe EXCEPT !["scan"] = [ProbeIdle EXCEPT !.pc = "next",
                                                                   !.todo = new_ips]]
    /\ UNCHANGED <<devices, ip_to_device, is_running, clients>>
    /\ UNCHANGED <<clientVars, taskVars, limits, hostVars, parseVars, added>>

\* the periodic scan, whatever the discovery returns
ScanStart ==
    /\ \E discovered \in SUBSET Hosts : ScanStartOn(discovered)
    /\ UNCHANGED netVars

\* _async_health_check found the registered device d unavailable and
\* created _rediscover_device(d); its scan returned all_ips
FindStartOn(d, all_ips) ==
    /\ is_running
    /\ probe["find"].pc = "idle"
    /\ d \in Keys(devices)
    /\ all_ips # {}
    /\ probe' = [probe EXCEPT !["find"] = [ProbeIdle EXCEPT !.pc = "next",
                                                            !.todo = all_ips,
                                                            !.target = d]]
    /\ UNCHANGED <<devices, ip_to_device, is_running, clients>>
    /\ UNCHANGED <<clientVars, taskVars, limits, hostVars, parseVars, added>>

\* the targeted search, whenever the health check may have found d offline
\* and whatever the discovery returns
FindStart(d) ==
    /\ \E all_ips \in SUBSET Hosts : FindStartOn(d, all_ips)
    /\ UNCHANGED netVars

\* the top of the loop over the addresses: the task ends, skips an address
\* the IP map holds (targeted only), or creates a temporary client and
\* awaits its connect()
ProbeNext(t) ==
    /\ probe[t].pc = "next"
    /\ IF probe[t].todo = {}
       THEN probe' = [probe EXCEPT ![t] = ProbeIdle]
       ELSE \E a \in probe[t].todo :
            IF t = "find" /\ a \in Keys(ip_to_device)
            THEN probe' = [probe EXCEPT ![t].todo = @ \ {a}]
            ELSE probe' = [probe EXCEPT ![t] = [@ EXCEPT !.pc = "connecting",
                                                        !.todo = @ \ {a},
                                                        !.ip = a]]
    /\ UNCHANGED <<devices, ip_to_device, is_running, clients>>
    /\ UNCHANGED <<clientVars, taskVars, limits, hostVars, parseVars, added, netVars>>

\* the move of the registered identity d to the address a of the probing
\* task t: the maps and the entry are updated, reconnect_with_new_ip runs
\* update_ip and awaits connect(force=True)
Move(t, d, a) ==
    LET entry == Get(devices, d)
    IN  /\ ip_to_device' = MovedIpMap(entry.ip, a, d)
        /\ devices' = MovedDevices(d, a)
        /\ clients' = [clients EXCEPT ![entry.client].ip = a]
        /\ probe' = [probe EXCEPT ![t] = [@ EXCEPT !.pc = "reconnecting",
                                                  !.tconn = TRUE,
                                                  !.dev = d,
                                                  !.old = entry.ip,
                                                  !.found = (t = "find")]]
        /\ UNCHANGED added

\* `await client.disconnect()` on the temporary client is begun
CloseTemp(t, last) ==
    /\ probe' = [probe EXCEPT ![t] = [@ EXCEPT !.pc = "closing", !.tconn = TRUE,
                                              !.found = last]]
    /\ UNCHANGED <<devices, ip_to_device, clients, added>>

\* the temporary client's connect() returned.  got is "fail" (False), ""
\* (True without a device id) or the identity of the device that answered.
ProbeConnectedAs(t, got, supported) ==
    /\ probe[t].pc = "connecting"
    /\  IF got = "fail"
        THEN /\ probe' = [probe EXCEPT ![t] = ProbeAgain(t)]
             /\ UNCHANGED <<devices, ip_to_device, clients, added>>
        ELSE IF t = "scan"
        THEN IF got = "" THEN CloseTemp(t, FALSE)
             ELSE IF got \in Keys(devices) THEN Move(t, got, probe[t].ip)
             ELSE IF supported
             THEN /\ FreeObjs # {}
                  /\ AddDeviceOf(NextObj, NewClient(probe[t].ip), got)
                  /\ probe' = [probe EXCEPT ![t] = ProbeAgain(t)]
             ELSE CloseTemp(t, FALSE)
        ELSE IF got = probe[t].target
        THEN IF got \in Keys(devices) THEN Move(t, got, probe[t].ip)
             ELSE CloseTemp(t, TRUE)
        ELSE CloseTemp(t, FALSE)
    /\ UNCHANGED is_running
    /\ UNCHANGED <<clientVars, taskVars, limits, hostVars, parseVars>>

\* the temporary client's connect() returned, whatever device answered
ProbeConnected(t) ==
    /\ \E got \in {"fail", ""} \cup DeviceIds, supported \in BOOLEAN :
        ProbeConnectedAs(t, got, supported)
    /\ UNCHANGED netVars

\* reconnect_with_new_ip returned; the temporary client's disconnect() is
\* begun
ProbeReconnectedStep(t) ==
    /\ probe[t].pc = "reconnecting"
    /\ probe' = [probe EXCEPT ![t] = [@ EXCEPT !.pc = "closing", !.dev = "", !.old = ""]]
    /\ UNCHANGED <<devices, ip_to_device, is_running, clients>>
    /\ UNCHANGED <<clientVars, taskVars, limits, hostVars, parseVars, added>>

\* reconnect_with_new_ip returned, whatever its result
ProbeReconnected(t) ==
    /\ ProbeReconnectedStep(t)
    /\ UNCHANGED netVars

\* the temporary client's disconnect() returned; the object is dropped.
\* The targeted task returns after the address of its device.
ProbeTempClosed(t) ==
    /\ probe[t].pc = "closing"
    /\ probe' = [probe EXCEPT ![t] = IF probe[t].found THEN ProbeIdle
                                     ELSE ProbeAgain(t)]
    /\ UNCHANGED <<devices, ip_to_device, is_running, clients>>
    /\ UNCHANGED <<clientVars, taskVars, limits, hostVars, parseVars, added, netVars>>

InitCoord ==
    /\ ip = "ip1"
    /\ writer = "none"
    /\ lock = "none"
    /\ available = FALSE
    /\ retry_count = 0
    /\ backoffPending = FALSE
    /\ consecutive_failures = 0
    /\ idle = TRUE
    /\ device_state = "unknown"
    /\ is_closing = FALSE
    /\ loopTask = "none"
    /\ cancelReq = FALSE
    /\ last_state = {}
    /\ device_id = ""
    /\ dpid = {}
    /\ reconnect_delay = RECONNECT_MIN_INTERVAL
    /\ delay = 0
    /\ stack = [t \in Tasks |-> <<>>]
    /\ ret = [t \in Tasks |-> NoRet]
    /\ rd = [t \in Tasks |-> "none"]
    /\ HostUnused
    /\ limits = [failures |-> 0, depth |-> 0, delay |-> 0]
    /\ ParseUnused
    /\ devices = {}
    /\ ip_to_device = {}
    /\ is_running = FALSE
    /\ clients = [o \in Objs |-> Fresh]
    /\ probe = [t \in Probes |-> ProbeIdle]
    /\ added = "none"
    /\ NetUnused

NextCoord ==
    \/ Start
    \/ Stop
    \/ \E a \in Hosts, d \in DeviceIds \cup {""} : AddDevice(a, d)
    \/ \E d \in DeviceIds : RemoveDevice(d)
    \/ ScanStart
    \/ \E d \in DeviceIds : FindStart(d)
    \/ \E t \in Probes : ProbeNext(t)
    \/ \E t \in Probes : ProbeConnected(t)
    \/ \E t \in Probes : ProbeReconnected(t)
    \/ \E t \in Probes : ProbeTempClosed(t)

SpecCoord == InitCoord /\ [][NextCoord]_vars

\* ------------------------------------------------------------------------
\* ------------------------------------------------------------------------
\* Recovery of a device that changed its address: the network, the receive
\* loops of the registered clients as the coordinator sees them, the health
\* check and the two re-discovery tasks.  No user action takes place.
\* ------------------------------------------------------------------------

MaxMoves == 2

\* a client without a connection
NoLink == [state |-> "unknown", at |-> "", peer |-> "", idle |-> FALSE]

\* the devices that answer at address a
DevicesAt(a) == {d \in DeviceIds : where[d] = a /\ d \notin silent}
\* what get_ip / async_discover_devices report: every address that answers
Occupied == {a \in Hosts : DevicesAt(a) # {}}
\* the socket of client o still reaches the device it was opened to
Alive(o) == link[o].at # "" /\ where[link[o].peer] = link[o].at
\* the result of connect() of a client whose address is a
Connected(a) ==
    IF DevicesAt(a) = {} THEN [NoLink EXCEPT !.state = "offline"]
    ELSE [NoLink EXCEPT !.state = "online", !.at = a,
                        !.peer = CHOOSE d \in DevicesAt(a) : TRUE]

\* the registered identities whose client is in state Offline under the
\* client states l
StillOffline(l) == {p[1] : p \in {q \in devices : l[q[2].client].state = "offline"}}

\* the device d leaves its address and answers at a ("off": nowhere)
DeviceMoves(d, a) ==
    /\ moves < MaxMoves
    /\ a # where[d]
    /\ a = "off" \/ \A e \in DeviceIds : where[e] # a
    /\ where' = [where EXCEPT ![d] = a]
    /\ moves' = moves + 1
    /\ UNCHANGED <<link, offline_since, silent, notified>>
    /\ UNCHANGED <<devices, ip_to_device, is_running, clients, probe>>
    /\ UNCHANGED <<clientVars, taskVars, limits, hostVars, parseVars, added>>

\* the device d stops answering; the sockets open to it stay open and
\* accept what is written
DeviceSilent(d) ==
    /\ moves < MaxMoves
    /\ where[d] # "off"
    /\ d \notin silent
    /\ silent' = silent \cup {d}
    /\ moves' = moves + 1
    /\ UNCHANGED <<where, link, offline_since, notified>>
    /\ UNCHANGED <<devices, ip_to_device, is_running, clients, probe>>
    /\ UNCHANGED <<clientVars, taskVars, limits, hostVars, parseVars, added>>

\* HEARTBEAT_INTERVAL passes without activity on the socket of client o
LinkIdle(o) ==
    /\ clients[o].loop
    /\ link[o].state = "online"
    /\ Alive(o)
    /\ link[o].peer \in silent
    /\ ~link[o].idle
    /\ link' = [link EXCEPT ![o].idle = TRUE]
    /\ notified' = notified \cap StillOffline(link')
    /\ UNCHANGED <<where, offline_since, silent, moves>>
    /\ UNCHANGED <<devices, ip_to_device, is_running, clients, probe>>
    /\ UNCHANGED <<clientVars, taskVars, limits, hostVars, parseVars, added>>

\* _receive_loop, phase 2: the read times out, needs_heartbeat() holds and
\* _send_heartbeat_internal writes the QUERY, which the socket accepts; the
\* next pass sets ONLINE and reads again
LinkHeartbeat(o) ==
    /\ clients[o].loop
    /\ link[o].state = "online"
    /\ Alive(o)
    /\ link[o].idle
    /\ link' = [link EXCEPT ![o].idle = FALSE, ![o].state = "online"]
    /\ notified' = notified \cap StillOffline(link')
    /\ UNCHANGED <<where, offline_since, silent, moves>>
    /\ UNCHANGED <<devices, ip_to_device, is_running, clients, probe>>
    /\ UNCHANGED <<clientVars, taskVars, limits, hostVars, parseVars, added>>

\* _receive_loop, phase 2: the read ends (empty or with an error) because
\* the socket no longer reaches its device; the connection is closed and
\* the next pass sets CONNECTING and awaits connect(force=True)
LinkLost(o) ==
    /\ clients[o].loop
    /\ link[o].state = "online"
    /\ ~Alive(o)
    /\ link' = [link EXCEPT ![o] = [NoLink EXCEPT !.state = "connecting"]]
    /\ notified' = notified \cap StillOffline(link')
    /\ UNCHANGED <<where, offline_since, silent, moves>>
    /\ UNCHANGED <<devices, ip_to_device, is_running, clients, probe>>
    /\ UNCHANGED <<clientVars, taskVars, limits, hostVars, parseVars, added>>

\* _receive_loop, phase 1: connect(force=True) returned; ONLINE on success,
\* OFFLINE and the backoff sleep on failure
LinkConnect(o) ==
    /\ clients[o].loop
    /\ link[o].state = "connecting"
    /\ link' = [link EXCEPT ![o] = Connected(clients[o].ip)]
    /\ notified' = notified \cap StillOffline(link')
    /\ UNCHANGED <<where, offline_since, silent, moves>>
    /\ UNCHANGED <<devices, ip_to_device, is_running, clients, probe>>
    /\ UNCHANGED <<clientVars, taskVars, limits, hostVars, parseVars, added>>

\* _receive_loop: the backoff sleep ends; the next pass reconnects unless
\* somebody connected the client in between
LinkWake(o) ==
    /\ clients[o].loop
    /\ link[o].state = "offline"
    /\ link' = [link EXCEPT ![o].state = IF link[o].at # "" THEN "online"
                                         ELSE "connecting"]
    /\ notified' = notified \cap StillOffline(link')
    /\ UNCHANGED <<where, offline_since, silent, moves>>
    /\ UNCHANGED <<devices, ip_to_device, is_running, clients, probe>>
    /\ UNCHANGED <<clientVars, taskVars, limits, hostVars, parseVars, added>>

\* the entries the health check sees ONLINE / OFFLINE
SeenOnline == {p[1] : p \in {q \in devices : link[q[2].client].state = "online"}}
SeenOffline == {p[1] : p \in {q \in devices : link[q[2].client].state = "offline"}}

\* _async_health_check: every entry is visited without suspension;
\* offline_since is cleared for the ONLINE ones and set for the OFFLINE ones.
\* For d # "" the re-discovery interval of the OFFLINE entry d has passed:
\* _rediscover_device(d) is created and its discovery reports the addresses
\* that answer.
HealthCheck(d) ==
    /\ is_running
    /\ offline_since' = (offline_since \ SeenOnline) \cup SeenOffline
    /\ notified' = notified \cup (SeenOffline \ offline_since)
    /\ IF d = ""
       THEN /\ offline_since' # offline_since
            /\ UNCHANGED <<devices, ip_to_device, is_running, clients, probe>>
            /\ UNCHANGED <<clientVars, taskVars, limits, hostVars, parseVars, added>>
       ELSE /\ d \in SeenOffline
            /\ FindStartOn(d, Occupied)
    /\ UNCHANGED <<where, link, silent, moves>>

\* _async_rediscovery: the periodic scan reports the addresses that answer
RecoverScan ==
    /\ ScanStartOn(Occupied)
    /\ UNCHANGED netVars

\* the temporary client's connect() returned what the device at its
\* address answered; a client that add_device registers is connected already
RecoverProbeConnected(t) ==
    /\ LET here == DevicesAt(probe[t].ip)
       IN  ProbeConnectedAs(t, IF here = {} THEN "fail" ELSE CHOOSE d \in here : TRUE, TRUE)
    /\ link' = [o \in Objs |->
                  IF clients'[o].used /\ ~clients[o].used
                  THEN Connected(clients'[o].ip)
                  ELSE link[o]]
    /\ notified' = notified \cap StillOffline(link')
    /\ UNCHANGED <<where, offline_since, silent, moves>>

\* reconnect_with_new_ip returned: the old socket was closed and
\* connect(force=True) ran against the new address; only a success changes
\* device_state.  The targeted search then clears offline_since.
RecoverProbeReconnected(t) ==
    /\ ProbeReconnectedStep(t)
    /\ LET d == probe[t].dev
           o == Get(devices, d).client
           c == Connected(clients[o].ip)
       IN  /\ link' = [link EXCEPT ![o] = IF c.at # "" THEN c
                                          ELSE [c EXCEPT !.state = link[o].state]]
           /\ offline_since' = IF t = "find" THEN offline_since \ {d}
                               ELSE offline_since
    /\ notified' = notified \cap StillOffline(link')
    /\ UNCHANGED <<where, silent, moves>>

\* no client operation is in progress and nothing was sent or received
ClientNew ==
    /\ ip = "ip1"
    /\ writer = "none"
    /\ lock = "none"
    /\ available = FALSE
    /\ retry_count = 0
    /\ backoffPending = FALSE
    /\ consecutive_failures = 0
    /\ idle = TRUE
    /\ device_state = "unknown"
    /\ is_closing = FALSE
    /\ loopTask = "none"
    /\ cancelReq = FALSE
    /\ last_state = {}
    /\ device_id = ""
    /\ dpid = {}
    /\ reconnect_delay = RECONNECT_MIN_INTERVAL
    /\ delay = 0
    /\ stack = [t \in Tasks |-> <<>>]
    /\ ret = [t \in Tasks |-> NoRet]
    /\ rd = [t \in Tasks |-> "none"]
    /\ HostUnused
    /\ limits = [failures |-> 0, depth |-> 0, delay |-> 0]
    /\ ParseUnused

\* the coordinator runs; X is registered at ip1 and online, Y is either
\* registered at ip2 and online or absent
InitRecover ==
    /\ ClientNew
    /\ is_running = TRUE
    /\ probe = [t \in Probes |-> ProbeIdle]
    /\ added = "none"
    /\ offline_since = {}
    /\ silent = {}
    /\ notified = {}
    /\ moves = 0
    /\ \E both \in BOOLEAN :
        /\ where = [d \in DeviceIds |-> IF d = "X" THEN "ip1"
                                        ELSE IF both THEN "ip2" ELSE "off"]
        /\ devices = {<<"X", [device_id |-> "X", ip |-> "ip1", client |-> 1]>>}
                     \cup (IF both
                           THEN {<<"Y", [device_id |-> "Y", ip |-> "ip2", client |-> 2]>>}
                           ELSE {})
        /\ ip_to_device = {<<"ip1", "X">>} \cup (IF both THEN {<<"ip2", "Y">>} ELSE {})
        /\ clients = [o \in Objs |->
                        IF o = 1 THEN [NewClient("ip1") EXCEPT !.loop = TRUE]
                        ELSE IF o = 2 /\ both THEN [NewClient("ip2") EXCEPT !.loop = TRUE]
                        ELSE Fresh]
        /\ link = [o \in Objs |->
                     IF o = 1 THEN Connected("ip1")
                     ELSE IF o = 2 /\ both THEN Connected("ip2")
                     ELSE NoLink]

NextRecover ==
    \/ \E d \in DeviceIds, a \in Hosts \cup {"off"} : DeviceMoves(d, a)
    \/ \E d \in DeviceIds : DeviceSilent(d)
    \/ \E o \in Objs : LinkIdle(o)
    \/ \E o \in Objs : LinkHeartbeat(o)
    \/ \E o \in Objs : LinkLost(o)
    \/ \E o \in Objs : LinkConnect(o)
    \/ \E o \in Objs : LinkWake(o)
    \/ \E d \in DeviceIds \cup {""} : HealthCheck(d)
    \/ RecoverScan
    \/ \E t \in Probes : ProbeNext(t)
    \/ \E t \in Probes : RecoverProbeConnected(t)
    \/ \E t \in Probes : RecoverProbeReconnected(t)
    \/ \E t \in Probes : ProbeTempClosed(t)

\* the loops, the tasks and the periodic scan keep running; the health
\* check is periodic and an OFFLINE client sleeps ever longer between two
\* attempts, so a check does fall into an OFFLINE period that recurs
FairRecover ==
    /\ \A o \in Objs : WF_vars(LinkLost(o)) /\ WF_vars(LinkConnect(o)) /\ WF_vars(LinkWake(o))
    /\ \A o \in Objs : WF_vars(LinkIdle(o)) /\ WF_vars(LinkHeartbeat(o))
    /\ \A t \in Probes : /\ WF_vars(ProbeNext(t))
                         /\ WF_vars(RecoverProbeConnected(t))
                         /\ WF_vars(RecoverProbeReconnected(t))
                         /\ WF_vars(ProbeTempClosed(t))
    /\ WF_vars(RecoverScan)
    /\ \A d \in DeviceIds \cup {""} : SF_vars(HealthCheck(d))

SpecRecover == InitRecover /\ [][NextRecover]_vars /\ FairRecover

\* ------------------------------------------------------------------------
\* The subscribers of one client: register_state_callback, the unregister
\* handle it returns, and _dispatch_state.
\* ------------------------------------------------------------------------
MaxCallbacks == 3
Subscribers == {"f", "g"}
\* what a subscriber does when it is called
Outcomes == {"returns", "raises"}

\* a dispatch that gives up at the first subscriber that raises
ContinuesUnlessRaised(outcome) == outcome # "raises"

\* _dispatch_state wraps each call in try/except Exception: the loop goes on
\* to the next subscriber whatever the outcome of the call
Continues(outcome) == TRUE

\* the calls the loop of _dispatch_state makes from position i of the list on
RECURSIVE CallsFrom(_, _, _, _, _)
CallsFrom(i, list, outcome, id, state) ==
    IF i > Len(list) THEN <<>>
    ELSE <<[callback |-> list[i], device_id |-> id, state |-> state,
            raised |-> outcome[i] = "raises"]>>
         \o (IF Continues(outcome[i])
             THEN CallsFrom(i + 1, list, outcome, id, state)
             ELSE <<>>)

\* the list without its first occurrence of cb (list.remove)
RemoveFirst(list, cb) ==
    IF \E i \in 1..Len(list) : list[i] = cb
    THEN LET k == CHOOSE i \in 1..Len(list) :
                    list[i] = cb /\ \A j \in 1..(i - 1) : list[j] # cb
         IN  [i \in 1..(Len(list) - 1) |-> IF i < k THEN list[i] ELSE list[i + 1]]
    ELSE list

RegisterStateCallback(cb) ==
    /\ Len(state_callbacks) < MaxCallbacks
    /\ state_callbacks' = Append(state_callbacks, cb)
    /\ UNCHANGED <<invoked, entryVars, typeVars, loopsVars, clientVars, taskVars, limits, parseVars, coordVars>>

Unregister(cb) ==
    /\ state_callbacks' = RemoveFirst(state_callbacks, cb)
    /\ UNCHANGED <<invoked, entryVars, typeVars, loopsVars, clientVars, taskVars, limits, parseVars, coordVars>>

\* _dispatch_state(state), each subscriber i behaving as outcome[i]
DispatchStateTo(state, outcome) ==
    /\ DispatchState(state)
    /\ invoked' = CallsFrom(1, state_callbacks, outcome, device_id, last_state')
    /\ UNCHANGED <<ip, writer, lock, healthVars, device_state, loopCtl,
                   infoVars, reconnect_delay>>
    /\ UNCHANGED <<state_callbacks, entryVars, typeVars, loopsVars, taskVars, limits, parseVars, coordVars>>

Dispatch ==
    \E state \in SUBSET DpKeys, outcome \in [1..Len(state_callbacks) -> Outcomes] :
        DispatchStateTo(state, outcome)

\* a client that completed its handshake, without subscribers
InitDispatch ==
    /\ ip = "ip1"
    /\ writer = "up"
    /\ lock = "none"
    /\ available = TRUE
    /\ retry_count = 0
    /\ backoffPending = FALSE
    /\ consecutive_failures = 0
    /\ idle = TRUE
    /\ device_state = "online"
    /\ is_closing = FALSE
    /\ loopTask = "none"
    /\ cancelReq = FALSE
    /\ last_state = {}
    /\ device_id \in DeviceIds
    /\ dpid = DpKeys
    /\ reconnect_delay = RECONNECT_MIN_INTERVAL
    /\ delay = 0
    /\ stack = [t \in Tasks |-> <<>>]
    /\ ret = [t \in Tasks |-> NoRet]
    /\ rd = [t \in Tasks |-> "none"]
    /\ limits = [failures |-> 0, depth |-> 0, delay |-> 0]
    /\ ParseUnused
    /\ CoordUnused
    /\ state_callbacks = <<>>
    /\ invoked = <<>>
    /\ EntryUnused
    /\ TypeUnused
    /\ LoopsUnused

NextDispatch ==
    \/ \E cb \in Subscribers : RegisterStateCallback(cb)
    \/ \E cb \in Subscribers : Unregister(cb)
    \/ Dispatch

SpecDispatch == InitDispatch /\ [][NextDispatch]_vars

\* ------------------------------------------------------------------------
\* The config entries: async_setup_entry, the timers it schedules and
\* async_unload_entry.
\* ------------------------------------------------------------------------
TimerNames == {"cancel_health_check", "cancel_rediscovery"}
Of(e, set) == {p \in set : p[1] = e}
Loaded == Keys(hass_data)
NotEntry == <<clientVars, taskVars, limits, parseVars, coordVars, typeVars, loopsVars,
              state_callbacks, invoked>>

\* async_setup_entry(hass, entry) with the discovered and configured
\* addresses ip_list, of which those in `answering` complete the handshake
\* with a supported type: the clients are created and connected, the two
\* timers are scheduled and the entry data is stored.  No DeviceCoordinator
\* is created or started.
AsyncSetupEntry(e, ip_list, answering) ==
    /\ e \notin Loaded
    /\ LET valid_clients == ip_list \cap answering
       IN  /\ connected' = connected \cup {<<e, a>> : a \in valid_clients}
           /\ hass_data' = DictSet(hass_data, e, [tcp_client |-> valid_clients])
    /\ timers' = timers \cup {<<e, n>> : n \in TimerNames}
    /\ UNCHANGED <<starts, stops, NotEntry>>

SetupEntry(e) ==
    \E ip_list \in SUBSET Hosts, answering \in SUBSET Hosts :
        AsyncSetupEntry(e, ip_list, answering)

\* async_unload_entry(hass, entry), the platforms unloading or not: cancels
\* the timers, disconnects the clients and pops the entry data.  Nothing in
\* the entry data is stopped besides.
AsyncUnloadEntry(e, unload_ok) ==
    /\ e \in Loaded
    /\ IF unload_ok
       THEN /\ timers' = timers \ Of(e, timers)
            /\ connected' = connected \ Of(e, connected)
            /\ hass_data' = DictPop(hass_data, e)
       ELSE UNCHANGED <<timers, connected, hass_data>>
    /\ UNCHANGED <<starts, stops, NotEntry>>

UnloadEntry(e) == \E unload_ok \in BOOLEAN : AsyncUnloadEntry(e, unload_ok)

\* the socket of a client of entry e is lost
EntryClientDrops(e, a) ==
    /\ <<e, a>> \in connected
    /\ connected' = connected \ {<<e, a>>}
    /\ UNCHANGED <<hass_data, timers, starts, stops, NotEntry>>

\* async_connection_health_check: connect(force=True) on the clients of the
\* entry without a socket, those in `answering` succeeding
EntryHealthCheck(e) ==
    /\ <<e, "cancel_health_check">> \in timers
    /\ e \in Loaded
    /\ \E answering \in SUBSET Hosts :
        connected' = connected
                     \cup {<<e, a>> : a \in Get(hass_data, e).tcp_client \cap answering}
    /\ UNCHANGED <<hass_data, timers, starts, stops, NotEntry>>

InitEntry ==
    /\ ClientNew
    /\ CoordUnused

NextEntry ==
    \/ \E e \in EntryIds : SetupEntry(e)
    \/ \E e \in EntryIds : UnloadEntry(e)
    \/ \E e \in EntryIds, a \in Hosts : EntryClientDrops(e, a)
    \/ \E e \in EntryIds : EntryHealthCheck(e)

SpecEntry == InitEntry /\ [][NextEntry]_vars

\* ------------------------------------------------------------------------
\* What one connect() learns about the device: the handshake (_device_info)
\* and the capability query that _connect_internal sends when the dpid list
\* is still empty.
\* ------------------------------------------------------------------------
DpAll == {"1", "4", "6"}
LightDpids == {"3", "4", "5", "6"}
\* the fields of a handshake answer: did and pid present or not, dtp
Messages == [did : BOOLEAN, pid : BOOLEAN, dtp : {"", "02"}]
\* the entries of the PID list: the category of the item, the dpid of the model
Models == [c : {"", "01"}, dpid : SUBSET DpAll]
NotInfo == <<ip, lock, healthVars, device_state, loopCtl, last_state,
             reconnect_delay, ret, rd, limits, parseVars, coordVars,
             state_callbacks, invoked, entryVars, loopsVars>>

\* _device_info, the type code after the dtp field and the PID list
TypeAfterLookup(msg, hit, model) ==
    LET after_dtp == IF msg.dtp # "" THEN msg.dtp ELSE device_type_code
    IN  IF msg.pid /\ hit /\ after_dtp = "" THEN model.c ELSE after_dtp

\* _device_info, the dpid list after the PID list lookup
DpidAfterLookup(msg, hit, model) == IF msg.pid /\ hit THEN model.dpid ELSE dpid

\* _device_info, the inference of a missing type code from the dpid list
InferType(type, d) ==
    IF type = "" /\ d # {}
    THEN (IF d \cap LightDpids # {} THEN "01" ELSE "00")
    ELSE type

\* _connect_internal: the socket opens
InfoOpen ==
    /\ stack["caller"] = <<>>
    /\ writer' = "up"
    /\ stack' = [stack EXCEPT !["caller"] = <<Fr("di_read")>>]
    /\ UNCHANGED <<infoVars, typeVars, NotInfo>>

\* _device_info reads the answer msg; the PID list has the entry `model`
\* for its pid when `hit`
InfoRead(msg, hit, model) ==
    /\ At("caller", "di_read")
    /\ IF msg.did
       THEN /\ device_id' \in DeviceIds
            /\ dpid' = DpidAfterLookup(msg, hit, model)
            /\ device_type_code' = InferType(TypeAfterLookup(msg, hit, model), dpid')
            /\ handshake' = [dtp |-> msg.dtp, hit |-> msg.pid /\ hit]
       ELSE UNCHANGED <<infoVars, typeVars>>
    /\ stack' = [stack EXCEPT !["caller"] = <<Fr("ci_after_info")>>]
    /\ UNCHANGED <<writer, NotInfo>>

\* _connect_internal after _device_info: the query when the dpid list is
\* empty, else the success bookkeeping and `return True`
InfoAfter ==
    /\ At("caller", "ci_after_info")
    /\ stack' = [stack EXCEPT !["caller"] =
                    IF dpid = {} THEN <<Fr("sr_read")>> ELSE <<Fr("done")>>]
    /\ UNCHANGED <<writer, infoVars, typeVars, NotInfo>>

\* the answer to the capability query lists the dpids attr (none: no list);
\* _connect_internal returns True
InfoQueryRet(attr) ==
    /\ At("caller", "sr_read")
    /\ dpid' = IF dpid = {} THEN attr ELSE dpid
    /\ stack' = [stack EXCEPT !["caller"] = <<Fr("done")>>]
    /\ UNCHANGED <<writer, device_id, typeVars, NotInfo>>

\* the connection is closed
InfoClose ==
    /\ At("caller", "done")
    /\ writer' = "none"
    /\ stack' = [stack EXCEPT !["caller"] = <<>>]
    /\ UNCHANGED <<infoVars, typeVars, NotInfo>>

InitInfo ==
    /\ ClientNew
    /\ CoordUnused

NextInfo ==
    \/ InfoOpen
    \/ \E msg \in Messages, hit \in BOOLEAN, model \in Models : InfoRead(msg, hit, model)
    \/ InfoAfter
    \/ \E attr \in SUBSET DpAll : InfoQueryRet(attr)
    \/ InfoClose

SpecInfo == InitInfo /\ [][NextInfo]_vars

\* ------------------------------------------------------------------------
\* The receive-loop tasks of one client under concurrent calls of
\* start_persistent_connection and stop_persistent_connection, made directly
\* or by the coordinator's start, stop, add_device and remove_device.  Each
\* call runs in a task of its own; a stop suspends while it awaits the
\* cancelled loop task and while it disconnects.
\* ------------------------------------------------------------------------
NotLoops == <<ip, writer, lock, healthVars, device_state, loopTask, cancelReq,
              last_state, infoVars, reconnect_delay, taskVars, limits, parseVars,
              devices, ip_to_device, clients, probe, added, netVars,
              state_callbacks, invoked, entryVars, typeVars>>

\* a start that only looks at _is_closing
CreatesTaskUnlessClosing == ~is_closing

\* start_persistent_connection: whether it goes on to create_task
CreatesTask ==
    /\ ~is_closing
    /\ receive_loop_task = 0 \/ loop_tasks[receive_loop_task] = "done"

\* start_persistent_connection (it never suspends)
StartPersistentConnection ==
    IF CreatesTask
    THEN \E i \in LoopIds :
            /\ loop_tasks[i] = "new"
            /\ \A j \in LoopIds : j < i => loop_tasks[j] # "new"
            /\ loop_tasks' = [loop_tasks EXCEPT ![i] = "live"]
            /\ receive_loop_task' = i
            /\ is_closing' = FALSE
    ELSE UNCHANGED <<loop_tasks, receive_loop_task, is_closing>>

\* stop_persistent_connection up to its first suspension, called by o
StopPersistentConnection(o) ==
    /\ is_closing' = TRUE
    /\ IF receive_loop_task # 0
       THEN /\ cancelled' = IF loop_tasks[receive_loop_task] = "live"
                            THEN cancelled \cup {receive_loop_task} ELSE cancelled
            /\ stop_calls' = [stop_calls EXCEPT ![o] =
                                [pc |-> "stop_wait", task |-> receive_loop_task]]
       ELSE /\ stop_calls' = [stop_calls EXCEPT ![o] = [pc |-> "stop_disc", task |-> 0]]
            /\ UNCHANGED cancelled

\* a task calls client.start_persistent_connection()
TaskStart(o) ==
    /\ stop_calls[o] = NoStop
    /\ StartPersistentConnection
    /\ UNCHANGED <<cancelled, stop_calls, registered, is_running, NotLoops>>

\* a task calls client.stop_persistent_connection()
TaskStop(o) ==
    /\ stop_calls[o] = NoStop
    /\ StopPersistentConnection(o)
    /\ UNCHANGED <<loop_tasks, receive_loop_task, registered, is_running, NotLoops>>

\* stop_persistent_connection: the awaited task has ended
TaskStopAwaited(o) ==
    /\ stop_calls[o].pc = "stop_wait"
    /\ loop_tasks[stop_calls[o].task] = "done"
    /\ receive_loop_task' = 0
    /\ stop_calls' = [stop_calls EXCEPT ![o] = [pc |-> "stop_disc", task |-> 0]]
    /\ UNCHANGED <<loop_tasks, cancelled, registered, is_closing, is_running, NotLoops>>

\* stop_persistent_connection: disconnect() has returned, state Offline
TaskStopDone(o) ==
    /\ stop_calls[o].pc = "stop_disc"
    /\ stop_calls' = [stop_calls EXCEPT ![o] = NoStop]
    /\ UNCHANGED <<loop_tasks, cancelled, receive_loop_task, registered,
                   is_closing, is_running, NotLoops>>

\* _receive_loop of task i ends: the CancelledError is delivered, or the
\* while condition finds _is_closing
ReceiveLoopEnds(i) ==
    /\ loop_tasks[i] = "live"
    /\ i \in cancelled \/ is_closing
    /\ loop_tasks' = [loop_tasks EXCEPT ![i] = "done"]
    /\ cancelled' = cancelled \ {i}
    /\ UNCHANGED <<receive_loop_task, stop_calls, registered, is_closing,
                   is_running, NotLoops>>

\* DeviceCoordinator.start() called by o
TaskCoordStart(o) ==
    /\ stop_calls[o] = NoStop
    /\ ~is_running
    /\ is_running' = TRUE
    /\ IF registered THEN StartPersistentConnection
       ELSE UNCHANGED <<loop_tasks, receive_loop_task, is_closing>>
    /\ UNCHANGED <<cancelled, stop_calls, registered, NotLoops>>

\* DeviceCoordinator.stop() called by o
TaskCoordStop(o) ==
    /\ stop_calls[o] = NoStop
    /\ is_running' = FALSE
    /\ IF registered THEN StopPersistentConnection(o)
       ELSE UNCHANGED <<cancelled, stop_calls, is_closing>>
    /\ UNCHANGED <<loop_tasks, receive_loop_task, registered, NotLoops>>

\* DeviceCoordinator.add_device(client) called by o
TaskAddDevice(o) ==
    /\ stop_calls[o] = NoStop
    /\ ~registered
    /\ registered' = TRUE
    /\ IF is_running THEN StartPersistentConnection
       ELSE UNCHANGED <<loop_tasks, receive_loop_task, is_closing>>
    /\ UNCHANGED <<cancelled, stop_calls, is_running, NotLoops>>

\* DeviceCoordinator.remove_device(device_id) called by o
TaskRemoveDevice(o) ==
    /\ stop_calls[o] = NoStop
    /\ registered
    /\ registered' = FALSE
    /\ StopPersistentConnection(o)
    /\ UNCHANGED <<loop_tasks, receive_loop_task, is_running, NotLoops>>

InitTasks ==
    /\ ClientNew
    /\ CoordUnused

NextTasks ==
    \/ \E o \in CallIds : TaskStart(o)
    \/ \E o \in CallIds : TaskStop(o)
    \/ \E o \in CallIds : TaskStopAwaited(o)
    \/ \E o \in CallIds : TaskStopDone(o)
    \/ \E i \in LoopIds : ReceiveLoopEnds(i)
    \/ \E o \in CallIds : TaskCoordStart(o)
    \/ \E o \in CallIds : TaskCoordStop(o)
    \/ \E o \in CallIds : TaskAddDevice(o)
    \/ \E o \in CallIds : TaskRemoveDevice(o)

SpecTasks == InitTasks /\ [][NextTasks]_vars

\* Properties of the received text.
\* ------------------------------------------------------------------------
\* C3: when the device sends one response line for the request's id A and
\* one for another id B, in either order, a wait for A that returns data
\* returns the data of the A line.
C3_ReturnsOwnPayload ==
    (/\ Len(sent) = 2
     /\ sent[1].sn # sent[2].sn
     /\ \E i \in 1..2 : sent[i].sn = sn
     /\ result.kind = "data")
    => \E i \in 1..2 : sent[i].sn = sn /\ sent[i].data = result.data

\* ------------------------------------------------------------------------
\* Properties of the client.
\* ------------------------------------------------------------------------
\* C1: while the receive loop is running and waiting in its read, no
\* query() or control() call has a read of its own on the socket.
C1_NoReadBesideLoop ==
    ~(/\ loopTask = "running"
      /\ rd["loop"] = "cur"
      /\ \E t \in Callers :
            /\ Len(stack[t]) > 0
            /\ Top(t).pc \in {"sr_read", "ctl_read"}
            /\ rd[t] # "none")

\* C2: while a task holds the client lock, a step of another task never
\* closes or replaces the socket.
C2_SocketOpsUnderLock ==
    [][(writer' # writer /\ lock \in Tasks /\ stack' # stack)
        => stack'[lock] # stack[lock]]_vars

\* C4: a connect() that returns success has obtained a device id.
C4_NoIdIsFailure ==
    \A t \in Callers :
        (Len(stack[t]) > 0 /\ Top(t).pc = "connect_ret" /\ ret[t].ok) => device_id # ""

C6_DelayMonotone ==
    [][delay' # 0 => (delay' >= delay /\ delay' <= MAX_RETRY_DELAY)]_vars

\* C6 witness: one failure more than the cap of the retry counter; the
\* delay is the one of the cap.
C6_Witness ==
    /\ retry_count = MAX_RETRY_ATTEMPTS
    /\ consecutive_failures > MAX_RETRY_ATTEMPTS
    /\ delay = RetryDelay(MAX_RETRY_ATTEMPTS)

\* C7: the step in which connect(force=True) gets the lock leaves the task
\* in asyncio.open_connection, or in the close of the old socket that
\* precedes it.
C7_ForceAttempts ==
    [][\A t \in Callers :
        (/\ Len(stack[t]) > 0
         /\ Top(t).pc = "connect"
         /\ Top(t).f
         /\ stack'[t] # stack[t])
        => LET s == stack'[t]
               k == Len(s)
           IN  /\ k > 1
               /\ \/ s[k].pc = "ci_open"
                  \/ s[k].pc = "close_end" /\ s[k - 1].pc = "ci_open"]_vars

\* C7 witness: a forced connect() that found a backoff delay pending after
\* earlier failures waits in asyncio.open_connection.
C7_Witness ==
    \E t \in Callers :
        /\ Len(stack[t]) = 2
        /\ stack[t][1].pc = "connect_ret" /\ stack[t][1].f /\ stack[t][1].n = 1
        /\ Top(t).pc = "ci_open"
        /\ retry_count > 0


\* ------------------------------------------------------------------------
\* Properties of the coordinator.
\* ------------------------------------------------------------------------

C9_MoveUpdatesRegistry ==
    [][\A t \in Probes :
        /\ (probe[t].pc = "connecting" /\ probe'[t].pc = "reconnecting")
           => LET d == probe'[t].dev
                  a == probe[t].ip
                  entry == Get(devices, d)
              IN  entry.ip # a
                  => /\ entry.ip \notin Keys(ip_to_device')
                     /\ \A p \in ip_to_device' : p[1] = a => p[2] = d
                     /\ a \in Keys(ip_to_device')
                     /\ Get(devices', d).ip = a
                     /\ Get(devices', d).client = entry.client
                     /\ clients'[entry.client].used
                     /\ clients'[entry.client].ip = a
        /\ (probe[t].pc = "reconnecting" /\ probe'[t] # probe[t])
           => probe'[t].pc = "closing"
        /\ (probe[t].pc = "closing" /\ probe'[t] # probe[t])
           => ~probe'[t].tconn]_vars

\* the targeted re-discovery found its device at a new address and is
\* reconnecting the registered client
C9_Witness ==
    /\ probe["find"].pc = "reconnecting"
    /\ probe["find"].old # probe["find"].ip
    /\ probe["find"].dev = probe["find"].target

\* C10: when start() returns, every registered device has a running
\* receive loop, whatever happened before, a stop() included.
C10_StartRunsEveryLoop ==
    [][(~is_running /\ is_running')
       => \A p \in devices' : clients'[p[2].client].loop]_vars


\* ------------------------------------------------------------------------
\* Properties of the receive loop.
\* ------------------------------------------------------------------------

\* C11: when stop_persistent_connection() returns, the receive-loop task
\* has ended, the socket is closed and the device state is Offline,
\* wherever the loop was when the stop was requested.
C11_StopEndsLoop ==
    [][\A t \in Callers :
        (Len(stack[t]) > 0 /\ Top(t).pc = "stop_fin" /\ stack'[t] # stack[t])
        => /\ loopTask' = "none"
           /\ stack'["loop"] = <<>>
           /\ writer' = "none"
           /\ device_state' = "offline"]_vars

\* the stop has returned, and it had found the loop between a failed
\* connect and the next one (only the loop raises the reconnect delay, and
\* its next successful connect resets it)
C11_Witness ==
    /\ is_closing
    /\ loopTask = "none"
    /\ device_state = "offline"
    /\ reconnect_delay > RECONNECT_MIN_INTERVAL
    /\ \A t \in Callers : stack[t] = <<Fr("done")>>


\* C12: each time the loop's connect(force=True) succeeds, the loop sets
\* the state Online, resets its reconnect delay and sends a QUERY to the
\* device: the query() it calls goes on to _send_receiver.
C12_LoopQueriesDevice ==
    [][/\ (Len(stack["loop"]) > 0 /\ Top("loop").pc = "loop_conn_ret" /\ ret["loop"].ok
           /\ stack'["loop"] # stack["loop"])
          => (device_state' = "online" /\ reconnect_delay' = RECONNECT_MIN_INTERVAL)
       /\ (Len(stack["loop"]) > 0 /\ Top("loop").pc = "query"
           /\ stack'["loop"] # stack["loop"])
          => stack'["loop"][Len(stack'["loop"])].pc = "sr_lock"]_vars


\* C13: once the device's text has been received, every line that carried
\* a data payload has been dispatched, however the text was split over
\* the reads.
C13_NoUpdateLost ==
    wire = <<>>
    => \A i \in 1..Len(sent) :
          sent[i].data # <<>> => \E j \in 1..Len(pushed) : pushed[j] = sent[i].data

\* C14: a registered device that left its address and answers at another
\* address that discovery reports (it is not silent) is eventually mapped
\* to that address and Online again, once the network has settled.
Settled == moves = MaxMoves
Recovered(d) ==
    /\ <<where[d], d>> \in ip_to_device
    /\ link[Get(devices, d).client].state = "online"
    /\ Cardinality({p \in devices : p[1] = d}) = 1
C14_MovedDeviceRecovers ==
    \A d \in DeviceIds :
        (Settled /\ d \in Keys(devices) /\ where[d] \in Occupied) ~> Recovered(d)

\* C15: a registered device that falls silent while its connection stays
\* open (reads time out, heartbeats are accepted) is eventually in state
\* Offline and marked offline by the health check.
SilentOnOpenLink(d) ==
    /\ d \in Keys(devices)
    /\ d \in silent
    /\ Alive(Get(devices, d).client)
    /\ link[Get(devices, d).client].peer = d
C15_SilentDeviceGoesOffline ==
    \A d \in DeviceIds :
        (Settled /\ SilentOnOpenLink(d))
            ~> (/\ d \in Keys(devices)
                /\ link[Get(devices, d).client].state = "offline"
                /\ d \in offline_since)

\* C16: disconnect() and stop_persistent_connection() called again raise
\* nothing and end in the state the first call ended in: every disconnect()
\* ends with the socket closed and the retry and failure counters zero,
\* every stop ends so with state Offline, and a call that starts in that
\* state changes nothing of the client.
Disconnected == writer = "none" /\ retry_count = 0 /\ consecutive_failures = 0
                /\ ~backoffPending /\ delay = 0
StepsAt(t, l) == Len(stack[t]) > 0 /\ Top(t).pc = l /\ stack'[t] # stack[t]
C18_AckOutcome ==
    [][\A t \in Callers :
        StepsAt(t, "ctl_read")
            => IF ret'[t].ok
               THEN /\ stack'[t] = <<Fr("done")>>
                    /\ writer' = writer
                    /\ lock' = "none"
                    /\ consecutive_failures' \in {0, consecutive_failures}
                    /\ available' \in {TRUE, available}
               ELSE /\ writer' # "up"
                    /\ writer = "up" => writer' = "down"
                    /\ consecutive_failures' = consecutive_failures + 1]_vars
\* no loop runs, control() has written its SET on an open socket after an
\* earlier failure and its acknowledgment read is pending
C18_Witness ==
    /\ loopTask = "none"
    /\ writer = "up"
    /\ consecutive_failures > 0
    /\ \E t \in Callers : /\ lock = t
                           /\ stack[t] = <<Fr("ctl_read")>>
                           /\ rd[t] = "cur"

C20_RegisteredIdentityMoves ==
    [][\A a \in Hosts, d \in DeviceIds :
        (d \in Keys(devices) /\ AddDevice(a, d))
            => LET entry == Get(devices, d)
               IN  /\ added' = "false"
                   /\ Keys(devices') = Keys(devices)
                   /\ Cardinality(devices') = Cardinality(devices)
                   /\ IF entry.ip # a
                      THEN /\ entry.ip \notin Keys(ip_to_device')
                           /\ <<a, d>> \in ip_to_device'
                           /\ \A p \in ip_to_device' : p[1] = a => p[2] = d
                           /\ Get(devices', d).ip = a
                           /\ Get(devices', d).client = entry.client
                           /\ clients'[entry.client].ip = a
                      ELSE /\ devices' = devices
                           /\ ip_to_device' = ip_to_device]_vars
\* add_device moved the registered identity X from ip1 to ip2 while no
\* re-discovery task was at work
C20_Witness ==
    /\ added = "false"
    /\ \A t \in Probes : probe[t] = ProbeIdle
    /\ devices = {<<"X", [device_id |-> "X", ip |-> "ip2", client |-> 1]>>}
    /\ ip_to_device = {<<"ip2", "X">>}
    /\ clients[1].ip = "ip2" /\ clients[1].subscribed
    /\ ~clients[1].loop /\ ~clients[1].closing
    /\ ~is_running

\* C21: remove_device for a registered identity drops its entry and its
\* address from the IP map, stops its client, and leaves the entry and the
\* IP mapping of every other identity as they were.
C21_RemoveLeavesOthers ==
    [][\A d \in DeviceIds :
        RemoveDevice(d)
            => /\ devices' = {p \in devices : p[1] # d}
               /\ \A p \in ip_to_device' : p[2] # d
               /\ ~clients'[Get(devices, d).client].loop
               /\ {p \in ip_to_device' : p[2] # d} = {p \in ip_to_device : p[2] # d}]_vars

\* C22: while the client of a registered identity stays Offline, no second
\* disconnect notification is sent for it, whatever health checks and
\* re-discovery attempts take place in between.
C22_OneNoticePerOfflinePeriod ==
    [][\A d \in DeviceIds :
        (d \in SeenOffline /\ d \notin offline_since /\ d \in offline_since')
            => d \notin notified]_vars

\* C23: the targeted re-discovery of an identity probes every discovered
\* address that no other identity claims, ends at the first probe that
\* answers with its identity, and a probe without a match leaves both
\* registry maps as they were.
C23_SearchProbesUnclaimed ==
    [][LET f == probe["find"]
           g == probe'["find"]
       IN  /\ (f.pc = "next" /\ g # f /\ f.todo # {})
              => LET a == CHOOSE b \in f.todo : b \notin g.todo
                 IN  (\A p \in ip_to_device : p[1] = a => p[2] = f.target)
                        => (g.pc = "connecting" /\ g.ip = a)
           /\ (f.pc = "connecting" /\ g # f /\ g.pc # "reconnecting")
              => (devices' = devices /\ ip_to_device' = ip_to_device)
           /\ (f.pc = "closing" /\ f.found /\ g # f) => g.pc = "idle"]_vars

\* C24: once the dpid list of a client is non-empty, no later step (connect,
\* handshake, metadata lookup, query response, IP change) makes it empty.
C24_DpidStaysKnown == [][dpid # {} => dpid' # {}]_vars

C26_CloseLeavesUnavailable ==
    [][\A t \in Tasks :
        (CloseEnd(t) /\ available) => (writer' = "none" /\ ~available')]_vars

\* C27: setting up a config entry starts the device coordinator of the entry
\* once; unloading the entry (its platforms unloading) stops the coordinator
\* once and removes the data of the entry from the store.
C27_EntryRunsCoordinator ==
    [][\A e \in EntryIds :
        /\ SetupEntry(e) => starts'[e] = starts[e] + 1
        /\ AsyncUnloadEntry(e, TRUE)
              => (stops'[e] = stops[e] + 1 /\ e \notin Keys(hass_data'))]_vars

\* C28: while the receive loop runs, device_state, once it left the initial
\* Unknown, changes only along Connecting -> Online, Online -> Offline,
\* Connecting -> Offline and Offline -> Connecting, so that after a lost
\* connection the state is Offline before it is Connecting again.
C28_StateMachine ==
    [][(/\ loopTask = "running" /\ loopTask' = "running"
        /\ device_state # "unknown" /\ device_state' # device_state)
        => <<device_state, device_state'>> \in
              {<<"connecting", "online">>, <<"online", "offline">>,
               <<"connecting", "offline">>, <<"offline", "connecting">>}]_vars

\* the receive loop is inside a connection attempt
Attempting == \E i \in 1..Len(stack["loop"]) : stack["loop"][i].pc = "ci_open"

\* a stop of the loop was requested, or the loop ended
StopAsked == is_closing \/ cancelReq \/ loopTask # "running"

\* the call of task t that comes next is beyond the nesting the model follows
DepthReached(t) ==
    /\ stack[t] # <<>>
    /\ \/ Top(t).pc \in {"connect", "sr_reconn"} /\ Len(stack[t]) >= limits.depth
       \/ Top(t).pc \in {"sr_lock", "ci_after_info"} /\ Len(stack[t]) + 1 >= limits.depth

\* a step is cut off by the bounds of the model: one more counted failure,
\* one more sleep of the loop, or one more level of nested calls
Exhausted ==
    \/ consecutive_failures >= limits.failures
    \/ At("loop", "loop_sleep") /\ reconnect_delay >= limits.delay
    \/ \E t \in Tasks : DepthReached(t)

\* C29: the receive loop ends only when a stop was requested (cancellation
\* or the closing flag), whatever failures it meets; and whenever it runs
\* without a socket, it is later inside a connection attempt, or connected,
\* unless a stop is requested (all within the bounds of the model).
C29_LoopKeepsTrying ==
    /\ [][(loopTask = "running" /\ loopTask' # "running")
            => (is_closing \/ cancelReq)]_vars
    /\ (loopTask = "running" /\ writer = "none")
          ~> (Attempting \/ writer = "up" \/ StopAsked \/ Exhausted)

\* the loop is inside a new connection attempt after a failed one and the
\* sleep that followed it
C29_Witness ==
    /\ loopTask = "running"
    /\ ~is_closing /\ ~cancelReq
    /\ Attempting
    /\ consecutive_failures >= 1
    /\ reconnect_delay > RECONNECT_MIN_INTERVAL
    /\ ~Exhausted

\* C30: when a read of the receive loop times out with the connection idle
\* for HEARTBEAT_INTERVAL, one heartbeat QUERY is written (and no second one
\* after its drain); a heartbeat that fails closes the socket and leaves the
\* loop at its test, from where it goes to the connect phase; a timeout with
\* less idle time writes nothing and keeps the connection.
C30_HeartbeatWhenIdle ==
    [][/\ LoopRead("timeout")
            => /\ writer' = writer
               /\ stack'["loop"] = IF idle THEN <<Fr("loop_hb_drain")>>
                                           ELSE <<Fr("loop_top")>>
       /\ \A o \in DrainOutcomes :
            LoopHbDrain(o)
               => /\ stack'["loop"][1].pc = "loop_top"
                  /\ o = "fail" => writer' \in {"down", "none"}
                  /\ o = "ok" => (writer' = "up" /\ stack'["loop"] = <<Fr("loop_top")>>)
       /\ (LoopTop /\ ~is_closing /\ writer # "up")
            => (device_state' = "connecting" /\ Top("loop")'.pc = "connect")]_vars

\* a heartbeat written on an idle connection failed and the loop closes the
\* socket
C30_Witness ==
    /\ loopTask = "running"
    /\ stack["loop"] = <<Fr("loop_top"), Fr("close_end")>>
    /\ idle
    /\ writer = "down"

\* C31: when the handshake carried no type code and the PID list had nothing
\* for the device, a connect whose capability query lists the dpids of the
\* device ends with the type inferred from them: light when one of 3, 4, 5,
\* 6 is listed, switch otherwise.
C31_TypeInferredFromQuery ==
    [][\A attr \in SUBSET DpAll :
        (/\ InfoQueryRet(attr)
         /\ attr # {}
         /\ handshake.dtp = "" /\ ~handshake.hit
         /\ device_type_code = "")
        => device_type_code' = (IF attr \cap LightDpids # {} THEN "01" ELSE "00")]_vars

\* C32: a response line that carries the sn of the request and reaches the
\* client in at most two consecutive reads is put together from the read
\* buffer and returned, wherever the line was split.
C32_SplitLineReassembled ==
    (/\ Len(sent) = 1
     /\ sent[1].sn = sn
     /\ wire = <<>>
     /\ attempt <= 2)
    => result = [kind |-> "data", data |-> sent[1].data]

\* C33: the two registry maps always agree: every value of the IP map is a
\* registered identity, the address of every entry is a key of the IP map
\* that maps to the identity of the entry, and no two entries have one
\* address.
C33_RegistryMapsAgree ==
    /\ \A p \in ip_to_device : p[2] \in Keys(devices)
    /\ \A q \in devices :
        /\ q[2].ip \in Keys(ip_to_device)
        /\ Get(ip_to_device, q[2].ip) = q[1]
    /\ \A q1 \in devices, q2 \in devices : q1[2].ip = q2[2].ip => q1[1] = q2[1]

\* C34: the identity the client of a registered entry reports (the did of
\* the handshake of its connection) is the identity the entry is registered
\* under, after any reconnect, also when another device answers at the
\* address of the client.
C34_ClientKeepsIdentity ==
    \A q \in devices :
        link[q[2].client].peer # "" => link[q[2].client].peer = q[1]

\* C35: whenever _connect_internal returns True (and connect() with it), the
\* client holds an open socket at that moment: is_connected() is true.
C35_SuccessMeansConnected ==
    [][\A t \in Tasks :
        (/\ CiFinish(t) \/ CiAfterInfo(t)
         /\ Len(stack'[t]) < Len(stack[t])
         /\ ret'[t] = RetBool(TRUE))
        => writer' = "up"]_vars

\* C36: in every state of the client a failure counter at or above
\* MAX_CONSECUTIVE_FAILURES means the client is not available, and the
\* counter is zero right after every successful connect and every
\* successful send-and-receive.
C36_FailuresAndAvailability ==
    /\ [](consecutive_failures >= MAX_CONSECUTIVE_FAILURES => ~available)
    /\ [][\A t \in Tasks :
            /\ (/\ CiFinish(t) \/ CiAfterInfo(t)
                /\ Len(stack'[t]) < Len(stack[t])
                /\ ret'[t] = RetBool(TRUE))
               => consecutive_failures' = 0
            /\ SrReadAs(t, "match") => consecutive_failures' = 0]_vars

\* the counter has passed the threshold on a client whose socket is open
C36_Witness ==
    /\ consecutive_failures > MAX_CONSECUTIVE_FAILURES
    /\ ~available
    /\ writer = "up"

\* C37: at every moment a client has at most one live receive-loop task,
\* for any interleaving of start_persistent_connection,
\* stop_persistent_connection, the coordinator's start and stop, add_device
\* and remove_device.
C37_OneLiveLoop ==
    Cardinality({i \in LoopIds : loop_tasks[i] = "live"}) <= 1

\* a start is refused while a stop awaits the live task it cancelled
C37_Witness ==
    /\ \E o \in CallIds : stop_calls[o].pc = "stop_wait"
    /\ \E i \in LoopIds : loop_tasks[i] = "live" /\ i \in cancelled
    /\ is_running /\ registered

\* the socket-open attempts the pending _connect_internal calls of the
\* frames s[1..k] have started: a level that waits for its open_connection
\* is in attempt n + 1, a level past its open has had n failed attempts
\* and one that succeeded, a level in the sleep between attempts n failed
\* ones
RECURSIVE OpenAttempts(_, _)
OpenAttempts(s, k) ==
    IF k = 0 THEN 0
    ELSE OpenAttempts(s, k - 1) +
         (CASE s[k].pc \in {"ci_after_info", "ci_finish"} -> s[k].n + 1
            [] s[k].pc = "ci_open" /\ k = Len(s) -> s[k].n + 1
            [] s[k].pc = "ci_sleep" -> s[k].n
            [] OTHER -> 0)

\* C38: a connect() call makes at most max_quick_retries (3) socket-open
\* attempts before it ends, whatever the device does, also when the socket
\* opens but the writes fail while the dpid list is still empty.
C38_ConnectOpensAtMostThrice ==
    \A t \in Tasks :
        (Len(stack[t]) > 0 /\ stack[t][1].pc = "connect_ret")
            => OpenAttempts(stack[t], Len(stack[t])) <= max_quick_retries

\* C39: once stop() has returned and until start() is called again, no
\* registry map changes and the socket of no registered client is reopened,
\* also when a periodic or a targeted re-discovery task was in flight when
\* stop() was called: the step such a task takes when the connect() of its
\* temporary client returns leaves both maps alone and reconnects no
\* registered client.
C39_StopQuiesces ==
    [][\A t \in Probes :
        (~is_running /\ ProbeConnected(t))
            => /\ devices' = devices
               /\ ip_to_device' = ip_to_device
               /\ probe'[t].pc # "reconnecting"]_vars

====
